---- MODULE Spec2Model ----
(***************************************************************************)
(* State-machine model of the TestRemoteControl server core:               *)
(*   - ClientManager (per-client detection state, view mode, activity)     *)
(*   - StreamEngine  (capture tick, pane detection state machine)          *)
(*   - the socket handlers of index.js that drive them                     *)
(* Source files: src/server/lib/StreamEngine.js and the ClientManager and   *)
(* index.js sections of src/server/configManager.js.                        *)
(***************************************************************************)
EXTENDS Integers, Sequences, FiniteSets, TLC

VARIABLES
    clientStates,      \* ClientManager.clientStates: socket id -> state object
    clientOrder,       \* insertion order of the clientStates Map
    gone,              \* socket ids whose connection has been closed
    detectionMode,     \* config.global.detectionMode ("dynamic" | "fixed")
    isStreaming,       \* StreamEngine.isStreaming
    streamInterval,    \* StreamEngine.streamInterval: "null" | "live" | "cleared" | "leaked"
    detectionInterval, \* StreamEngine.detectionInterval: "null" | "live" | "cleared" | "leaked"
    isCapturing,       \* StreamEngine.isCapturing
    running,           \* captureAndEmit executions suspended at an await
    now,               \* Date.now()
    observed,          \* history: Pane Locator results per client (see Observe)
    ev,                \* history: what the last step did
    globalFps,         \* config.global.fps
    clientConfigs,     \* config.clients: socket id -> per-client overrides
    intervalMs,        \* period of the installed capture timer, << 1000, targetFps >>
    saving,            \* config:update handlers awaiting saveConfig() that
                       \* call updateInterval() afterwards
    cropConfig,        \* config.global.chatCrop and config.global.terminalCrop
    lastCaptureArea,   \* state.lastCaptureArea of each socket id
    shown,             \* history: origin and margins of the image last sent
    clicking,          \* input handlers suspended in screenshot()
    pointer,           \* the position robot.moveMouse has last set
    mouseClicks,       \* number of robot.mouseClick() calls made
    scrollAccumulatorY,\* state.scrollAccumulatorY of each socket id, in 1/100
    scrollSum,         \* history: per socket id, the three-finger input
                       \* accepted and the ticks computed from it
    uncaught,          \* an exception has left a socket handler
    delegated,         \* calls made into terminalManager and window-detector
    scrollProc,        \* ScrollWorker.proc: "running" | "exited"
    scrollStdin,       \* ScrollWorker.proc.stdin: "open" | "broken" | "destroyed"
    scrollPipe,        \* commands written to the helper and not yet executed
    scrollRequested,   \* history: the amounts scroll() was called with
    scrollExecuted,    \* history: the amounts the helper has executed
    proc,              \* WindowDetectorWorker.proc: [alive, killed]
    isReady,           \* WindowDetectorWorker.isReady
    pendingCallbacks,  \* WindowDetectorWorker.pendingCallbacks: id -> callback
    callId,            \* WindowDetectorWorker.callId
    cache,             \* WindowDetectorWorker.cache: key -> [value, time]
    cachedBy,          \* history: key -> the lookup whose answer the entry holds
    helperIn,          \* the complete lines written to the helper's stdin and
                       \* not yet executed: each the ids of the commands in it
    helperPartial,     \* ids of the commands written since the last newline
    helperOut,         \* lines the helper has written and the server not read
    timeouts,          \* armed timeout timers: id -> time they are due
    respawnTimers,     \* armed restart timers
    resolved,          \* history: id -> what resolve() was called with
    inFlightAtExit,    \* history: ids pending at an exit of the helper
    exits,             \* history: how many times the helper has exited
    lookup,            \* history: what the last lookup did
    snapshot,          \* the snapshot findTerminalPane is given: its size and
                       \* the rows of its horizontal edges
    terminalPane,      \* what findTerminalPane returned for it
    buffer,            \* the pixel buffer findVerticalEdges is given
    verticalEdges,     \* what findVerticalEdges returned for it
    cycles             \* the runs of the detection timer's callback that are
                       \* suspended at a window lookup

\* The state of ClientManager, StreamEngine and the config they read.
engineVars == << clientStates, clientOrder, gone, detectionMode, isStreaming,
                 streamInterval, detectionInterval, isCapturing, running, now,
                 observed, ev, globalFps, clientConfigs, intervalMs, saving >>

\* The state of the input handlers.
inputVars == << cropConfig, lastCaptureArea, shown, clicking, pointer,
               mouseClicks, scrollAccumulatorY, scrollSum, uncaught, delegated >>

\* The state of the ScrollWorker and of its helper process.
scrollVars == << scrollProc, scrollStdin, scrollPipe, scrollRequested,
                scrollExecuted >>

\* What the handlers and timers of the stream engine leave alone.
\* The state of the WindowDetectorWorker and of its helper process.
workerVars == << proc, isReady, pendingCallbacks, callId, cache, cachedBy, helperIn,
                helperPartial,
                helperOut, timeouts, respawnTimers, resolved, inFlightAtExit,
                exits, lookup >>

\* The snapshots handed to the pane detectors and what they found.
detectVars == << snapshot, terminalPane, buffer, verticalEdges >>

peripheralVars == << inputVars, scrollVars, workerVars, detectVars, cycles >>

vars == << engineVars, peripheralVars >>

-----------------------------------------------------------------------------
(* Bounds of the model *)

MaxNow == 5001         \* the clock does not advance beyond this (detection specs)
MaxSchedNow == 60002   \* the clock does not advance beyond this (scheduler spec)
MaxFrames == 5         \* no capture tick starts once a frameCount has reached this
MaxLockFrames == 10    \* the same, in the specification of the fixed-mode lock
MaxGoneFrames == 2     \* the same, in the specification of disconnections
MaxClicks == 2         \* robot.mouseClick() calls made
MaxClicking == 1       \* input:click handlers suspended at a time
MaxScrolls == 1        \* calls of ScrollWorker.scroll
MaxTicks == 1          \* size of the sum of three-finger ticks of a client
MaxCycles == 2         \* runs of the detection callback suspended at a time
MaxWidth == 100        \* width of a pixel buffer
MaxEdges == 3          \* horizontal edges of a snapshot
MaxCalls == 2          \* calls issued to the window helper
MaxRespawns == 1       \* exits of the window helper
MaxWorkerNow == 3001   \* the clock does not advance beyond this (worker spec)
MaxSaving == 1         \* config:update handlers awaiting saveConfig at a time
MaxObserved == 4       \* length up to which the history of results is kept

(* Program constants *)

CALIBRATION_DURATION == 5000
INACTIVITY_TIMEOUT_MS == 60000
Unset == -1

(* The socket ids, and the inputs the environment chooses from *)

Clients == {"c1", "c2"}
ViewModes == {"chat", "terminal", "apps", "config"}
PaneModes == {"chat", "terminal"}

None == << >>
Some(v) == << v >>
Get(o) == o[1]

Abs(n) == IF n < 0 THEN -n ELSE n

\* Results of findChatPaneStructural on a 1000x800 client image: the separator
\* lies strictly between 35% and 90% of the width, the pane spans to the right
\* edge over the full height.
ChatXs == {619, 620, 622, 625}
ChatPanes == { [x |-> v, y |-> 0, width |-> 1000 - v, height |-> 800] : v \in ChatXs }

\* Results of findTerminalPane on a 1000x800 client image: y lies between 30% of
\* the height and the status bar, x is 0 when no left separator is found.
TermPanes ==
    { [x |-> 0,  y |-> 600, width |-> 1000, height |-> 175],
      [x |-> 0,  y |-> 603, width |-> 900,  height |-> 172],
      [x |-> 40, y |-> 600, width |-> 960,  height |-> 175],
      [x |-> 0,  y |-> 610, width |-> 1000, height |-> 165] }

\* What the Pane Locator of a view mode can return: a pane or null.
PaneResults(viewMode) ==
    IF viewMode = "chat" THEN {None} \cup { Some(p) : p \in ChatPanes }
    ELSE IF viewMode = "terminal" THEN {None} \cup { Some(p) : p \in TermPanes }
    ELSE {None}

\* Bounds findWindowBounds can return for a client's window.
WindowBounds == { [x |-> 0, y |-> 0, width |-> 1000, height |-> 800] }

-----------------------------------------------------------------------------
(* ClientManager *)

createDefaultClientState(t) ==
    [ viewMode |-> "chat",
      lastActivity |-> t,
      isActive |-> TRUE,
      calibrationMode |-> TRUE,
      calibrationStartTime |-> 0,      \* null
      frameCount |-> 0,
      lastPaneX |-> Unset,
      stablePaneX |-> Unset,
      lastPaneY |-> Unset,
      stablePaneY |-> Unset,
      stablePaneW |-> Unset,
      stablePaneH |-> Unset,
      stabilityCount |-> 0,
      detectedWindow |-> None,
      streamSource |-> "auto",
      fixedChatZone |-> None,
      fixedTerminalZone |-> None ]

updateActivity(st, t) ==
    [st EXCEPT !.lastActivity = t, !.isActive = TRUE]

resetDetectionState(st) ==
    [st EXCEPT !.stablePaneX = Unset,
               !.stablePaneY = Unset,
               !.stabilityCount = 0,
               !.calibrationMode = TRUE,
               !.calibrationStartTime = 0]

\* A restore of the chat zone that leaves the calibrating flag as it is.
restoreChatZoneCalibrating(st) ==
    [st EXCEPT !.stablePaneX = Get(st.fixedChatZone).stablePaneX,
               !.lastPaneX = Get(st.fixedChatZone).stablePaneX,
               !.stabilityCount = 3]

restoreChatZone(st) ==
    [st EXCEPT !.stablePaneX = Get(st.fixedChatZone).stablePaneX,
               !.lastPaneX = Get(st.fixedChatZone).stablePaneX,
               !.stabilityCount = 3,
               !.calibrationMode = FALSE]

\* A restore of the terminal zone that leaves stablePaneX as the chat view set it.
restoreTerminalZoneKeepsX(st) ==
    [st EXCEPT !.stablePaneY = Get(st.fixedTerminalZone).stablePaneY,
               !.stablePaneW = Get(st.fixedTerminalZone).stablePaneW,
               !.stablePaneH = Get(st.fixedTerminalZone).stablePaneH,
               !.lastPaneX = Get(st.fixedTerminalZone).stablePaneX,
               !.lastPaneY = Get(st.fixedTerminalZone).stablePaneY,
               !.stabilityCount = 3,
               !.calibrationMode = FALSE]

restoreTerminalZone(st) ==
    [st EXCEPT !.stablePaneX = Get(st.fixedTerminalZone).stablePaneX,
               !.stablePaneY = Get(st.fixedTerminalZone).stablePaneY,
               !.stablePaneW = Get(st.fixedTerminalZone).stablePaneW,
               !.stablePaneH = Get(st.fixedTerminalZone).stablePaneH,
               !.lastPaneX = Get(st.fixedTerminalZone).stablePaneX,
               !.lastPaneY = Get(st.fixedTerminalZone).stablePaneY,
               !.stabilityCount = 3,
               !.calibrationMode = FALSE]

\* The guard of setMode's reset-or-restore block.
IsModeSwitch(st, mode) ==
    mode \in {"chat", "terminal"} /\ st.viewMode # mode

\* setMode takes the restore branch (a cached zone of the target mode, fixed mode).
RestoresZone(st, mode, dMode) ==
    /\ IsModeSwitch(st, mode)
    /\ dMode = "fixed"
    /\ \/ mode = "chat" /\ st.fixedChatZone # None
       \/ mode = "terminal" /\ st.fixedTerminalZone # None

\* ClientManager.setMode on an existing state object.
setMode(st, mode, dMode, t) ==
    LET s1 == IF ~IsModeSwitch(st, mode) THEN st
              ELSE IF RestoresZone(st, mode, dMode)
                   THEN IF mode = "chat" THEN restoreChatZone(st)
                                         ELSE restoreTerminalZone(st)
                   ELSE resetDetectionState(st)
    IN  updateActivity([s1 EXCEPT !.viewMode = mode], t)

-----------------------------------------------------------------------------
(* StreamEngine.performPaneDetection *)

ChatAgrees(st, p) == Abs(p.x - st.lastPaneX) < 5

TerminalAgrees(st, p) ==
    Abs(p.y - st.lastPaneY) < 5 /\ Abs(p.x - st.lastPaneX) < 5

\* A quorum of four agreeing observations.
QuorumOfFour(st) == st.stabilityCount >= 4

\* A quorum of two agreeing observations.
QuorumOfTwo(st) == st.stabilityCount >= 2

QuorumReached(st) == st.stabilityCount >= 3

\* Lines 252-264: start of the calibration clock, frame counter, timeout.
CalibrationClock(st, t) ==
    LET s1 == IF st.calibrationMode /\ st.calibrationStartTime = 0
              THEN [st EXCEPT !.calibrationStartTime = t] ELSE st
        s2 == [s1 EXCEPT !.frameCount = @ + 1]
    IN  IF /\ s2.calibrationMode
           /\ s2.calibrationStartTime # 0
           /\ t - s2.calibrationStartTime >= CALIBRATION_DURATION
        THEN [s2 EXCEPT !.calibrationMode = FALSE]
        ELSE s2

\* A fast exit that tests the other axis of each view mode.
FastExitOtherAxis(st, isFixedMode) ==
    /\ isFixedMode
    /\ ~st.calibrationMode
    /\ \/ st.viewMode = "chat" /\ st.stablePaneY > 0
       \/ st.viewMode = "terminal" /\ st.stablePaneX > 0

\* Lines 269-273: fixed mode and already stable.
FastExit(st, isFixedMode) ==
    /\ isFixedMode
    /\ ~st.calibrationMode
    /\ \/ st.viewMode = "chat" /\ st.stablePaneX > 0
       \/ st.viewMode = "terminal" /\ st.stablePaneY > 0

\* A re-detection cadence of every fifth frame.
shouldRunDetectionEveryFifth(st) ==
    \/ st.calibrationMode
    \/ st.frameCount % 5 = 0
    \/ st.viewMode = "chat" /\ st.stablePaneX = -1
    \/ st.viewMode = "terminal" /\ st.stablePaneY = -1

\* Lines 275-278.
shouldRunDetection(st) ==
    \/ st.calibrationMode
    \/ st.frameCount % 10 = 0
    \/ st.viewMode = "chat" /\ st.stablePaneX = -1
    \/ st.viewMode = "terminal" /\ st.stablePaneY = -1

\* A chat branch that records an outlier without resetting the counter.
ChatObserveKeepsCount(st, p) ==
    IF ChatAgrees(st, p)
    THEN [st EXCEPT !.stabilityCount = @ + 1]
    ELSE [st EXCEPT !.lastPaneX = p.x]

\* Lines 288-293: the stability counter of the chat branch.
ChatObserve(st, p) ==
    IF ChatAgrees(st, p)
    THEN [st EXCEPT !.stabilityCount = @ + 1]
    ELSE [st EXCEPT !.stabilityCount = 0, !.lastPaneX = p.x]

\* A commit of the latest result instead of the recorded position.
ChatCommitLatest(st, p, isFixedMode) ==
    IF ~QuorumReached(st) THEN st
    ELSE LET s1 == [st EXCEPT !.stablePaneX = p.x]
         IN  IF isFixedMode
             THEN [s1 EXCEPT !.fixedChatZone = Some([stablePaneX |-> s1.stablePaneX]),
                             !.calibrationMode = FALSE]
             ELSE s1

\* Lines 294-302: commit, and the auto-lock of fixed mode.
ChatCommit(st, p, isFixedMode) ==
    IF ~QuorumReached(st) THEN st
    ELSE LET s1 == [st EXCEPT !.stablePaneX = st.lastPaneX]
         IN  IF isFixedMode
             THEN [s1 EXCEPT !.fixedChatZone = Some([stablePaneX |-> s1.stablePaneX]),
                             !.calibrationMode = FALSE]
             ELSE s1

\* Lines 316-322: the stability counter of the terminal branch.
TerminalObserve(st, p) ==
    IF TerminalAgrees(st, p)
    THEN [st EXCEPT !.stabilityCount = @ + 1]
    ELSE [st EXCEPT !.stabilityCount = 0, !.lastPaneY = p.y, !.lastPaneX = p.x]

\* An auto-lock that stores the size committed before this step.
TerminalCommitStaleSize(st, p, isFixedMode) ==
    IF ~QuorumReached(st) THEN st
    ELSE LET s1 == [st EXCEPT !.stablePaneY = st.lastPaneY,
                              !.stablePaneX = st.lastPaneX,
                              !.stablePaneW = p.width,
                              !.stablePaneH = p.height]
         IN  IF isFixedMode
             THEN [s1 EXCEPT !.fixedTerminalZone =
                                 Some([stablePaneX |-> s1.stablePaneX,
                                       stablePaneY |-> s1.stablePaneY,
                                       stablePaneW |-> st.stablePaneW,
                                       stablePaneH |-> st.stablePaneH]),
                             !.calibrationMode = FALSE]
             ELSE s1

\* Lines 324-341: commit, and the auto-lock of fixed mode.
TerminalCommit(st, p, isFixedMode) ==
    IF ~QuorumReached(st) THEN st
    ELSE LET s1 == [st EXCEPT !.stablePaneY = st.lastPaneY,
                              !.stablePaneX = st.lastPaneX,
                              !.stablePaneW = p.width,
                              !.stablePaneH = p.height]
         IN  IF isFixedMode
             THEN [s1 EXCEPT !.fixedTerminalZone =
                                 Some([stablePaneX |-> s1.stablePaneX,
                                       stablePaneY |-> s1.stablePaneY,
                                       stablePaneW |-> s1.stablePaneW,
                                       stablePaneH |-> s1.stablePaneH]),
                             !.calibrationMode = FALSE]
             ELSE s1

\* Whether this detection step invokes the Pane Locator (state after the clock).
InvokesLocator(st, isFixedMode) ==
    ~FastExit(st, isFixedMode) /\ shouldRunDetection(st)

\* A detection step that forgets the committed position when no pane is found.
performPaneDetectionForgets(st, t, isFixedMode, res) ==
    LET s1 == CalibrationClock(st, t)
    IN  IF ~InvokesLocator(s1, isFixedMode) THEN s1
        ELSE IF res = None THEN [s1 EXCEPT !.stablePaneX = Unset, !.stablePaneY = Unset,
                                           !.stabilityCount = 0]
        ELSE IF s1.viewMode = "chat"
             THEN ChatCommit(ChatObserve(s1, Get(res)), Get(res), isFixedMode)
             ELSE IF s1.viewMode = "terminal"
                  THEN TerminalCommit(TerminalObserve(s1, Get(res)), Get(res), isFixedMode)
                  ELSE s1

\* performPaneDetection: res is what the Pane Locator returns if it is invoked.
\* The locators are async functions without an inner suspension, so the step
\* is atomic with respect to socket events and timers.
performPaneDetection(st, t, isFixedMode, res) ==
    LET s1 == CalibrationClock(st, t)
    IN  IF ~InvokesLocator(s1, isFixedMode) \/ res = None THEN s1
        ELSE IF s1.viewMode = "chat"
             THEN ChatCommit(ChatObserve(s1, Get(res)), Get(res), isFixedMode)
             ELSE IF s1.viewMode = "terminal"
                  THEN TerminalCommit(TerminalObserve(s1, Get(res)), Get(res), isFixedMode)
                  ELSE s1

-----------------------------------------------------------------------------
(* ConfigManager: global fps and per-client overrides *)

DefaultFps == 30
FpsMin == 10
FpsMax == 60

Max(S) == CHOOSE m \in S : \A n \in S : n <= m

\* updateGlobalConfig: the fps is clamped to [fpsMin, fpsMax].
SanitizeFps(v) == IF v < FpsMin THEN FpsMin ELSE IF v > FpsMax THEN FpsMax ELSE v

\* defaults.clientDefaults: fps 0 stands for null (use the global value).
clientDefaults == [fps |-> 0]

\* getClientConfig creates the entry of a socket id that has none; the
\* result is config.clients after the call for each id of ids.
getClientConfig(configs, ids) ==
    [c \in DOMAIN configs \cup ids |->
        IF c \in DOMAIN configs THEN configs[c] ELSE clientDefaults]

\* A removal that leaves the entry in place.
removeClientConfigKeeps(configs, c) == configs

removeClientConfig(configs, c) ==
    [x \in DOMAIN configs \ {c} |-> configs[x]]

\* The fps of getEffectiveConfig for a client with a config entry.
EffectiveFps(entry, gFps) == IF entry.fps # 0 THEN entry.fps ELSE gFps

\* A target fps that is the upper fps limit.
TargetFpsLimit(configs, ids, gFps) == FpsMax

\* updateInterval, lines 39-54, outside low-resource mode: the target fps over
\* the clients of getAllClients() (ids), after their entries were created.
TargetFps(configs, ids, gFps) ==
    Max({gFps} \cup { EffectiveFps(getClientConfig(configs, ids)[c], gFps) : c \in ids })

\* intervalMs = 1000 / targetFps, kept as a fraction.
Interval(targetFps) == << 1000, targetFps >>

-----------------------------------------------------------------------------
(* StreamEngine.captureAndEmit: the stable crop *)

\* Lines 199-214: the region of the client image (base region baseW x baseH)
\* that the stable crop keeps.
StableCrop(st, baseW, baseH) ==
    IF st.viewMode = "chat" /\ st.stablePaneX > 0
    THEN [x |-> st.stablePaneX, y |-> 0, w |-> baseW - st.stablePaneX, h |-> baseH]
    ELSE IF st.viewMode = "terminal" /\ st.stablePaneY > 0
    THEN LET cropX == IF st.stablePaneX > 0 THEN st.stablePaneX ELSE 0
             cropW == IF st.stablePaneW > 0 THEN st.stablePaneW ELSE baseW - cropX
             cropH == IF st.stablePaneH > 0 THEN st.stablePaneH ELSE baseH - st.stablePaneY
         IN  [x |-> cropX, y |-> st.stablePaneY, w |-> cropW, h |-> cropH]
    ELSE [x |-> 0, y |-> 0, w |-> baseW, h |-> baseH]

-----------------------------------------------------------------------------
(* History variables *)

\* ev: what the last step did, when it was a step of a capture tick that
\* processed a client or ended (op "capture"), a timer fire that returned at the
\* in-flight guard (op "skip") or for want of an eligible client (op "idle"),
\* or a view:setMode that switched to chat or
\* terminal from another mode (op "restore" / "reset"); NoEvent after every
\* other step. c: the client whose iteration of the tick's loop ran in the
\* step ("-" when none did), located: the Pane Locator was invoked for c in the
\* step, pane: what it returned; frames: the clients a frame was emitted to;
\* ended: the record of the tick the step ended.
NoEvent == [op |-> "none", c |-> "-", located |-> FALSE, pane |-> None,
            frames |-> {}, ended |-> None]

Event(op, c) == [NoEvent EXCEPT !.op = op, !.c = c]

\* observed[c]: the panes the Pane Locator has returned to c's state machine
\* in an unbroken series of detection runs of one view mode since the state
\* object was created. whole is FALSE (and the series dropped) once the series
\* is longer than MaxObserved or has been broken by a change of view mode.
NoneObserved == [whole |-> TRUE, series |-> << >>]

Overflow == [whole |-> FALSE, series |-> << >>]

Observe(h, res) ==
    IF res = None \/ ~h.whole THEN h
    ELSE IF Len(h.series) >= MaxObserved THEN Overflow
    ELSE [h EXCEPT !.series = Append(@, Get(res))]

Interrupt(h) == IF h = NoneObserved THEN h ELSE Overflow

-----------------------------------------------------------------------------
(* Initial state: the server is listening and streamEngine.start() has run   *)
(* (index.js listen callback); no client is connected.                       *)

\* The default crop margins (config.global.chatCrop, terminalCrop).
DefaultCrops ==
    [ chat     |-> [top |-> 40, bottom |-> 40, left |-> 0, right |-> 0],
      terminal |-> [top |-> 10, bottom |-> 10, left |-> 0, right |-> 0] ]

\* The input handlers before any event: no frame sent, no click pending, the
\* pointer where the server has not put it.
InputInit ==
    /\ cropConfig = DefaultCrops
    /\ lastCaptureArea = [c \in Clients |-> None]
    /\ shown = [c \in Clients |-> None]
    /\ clicking = << >>
    /\ pointer = None
    /\ mouseClicks = 0
    /\ scrollAccumulatorY = [c \in Clients |-> 0]
    /\ scrollSum = [c \in Clients |-> [input |-> 0, ticks |-> 0]]
    /\ uncaught = FALSE
    /\ delegated = {}

\* The ScrollWorker after its constructor: the helper spawned, nothing sent.
ScrollInit ==
    /\ scrollProc = "running"
    /\ scrollStdin = "open"
    /\ scrollPipe = << >>
    /\ scrollRequested = << >>
    /\ scrollExecuted = << >>

\* The output line WORKER_READY of a helper that has run the init script
\* (id 0 is no call id).
ReadyLine == [id |-> 0, result |-> << >>]

NoLookup == [key |-> "", hit |-> FALSE, value |-> None, id |-> 0]

\* The WindowDetectorWorker after its constructor: the helper spawned and
\* about to report ready.
WorkerInit ==
    /\ proc = [alive |-> TRUE, killed |-> FALSE]
    /\ isReady = FALSE
    /\ pendingCallbacks = << >>
    /\ callId = 0
    /\ cache = << >>
    /\ cachedBy = << >>
    /\ helperIn = << >>
    /\ helperPartial = << >>
    /\ helperOut = << ReadyLine >>
    /\ timeouts = << >>
    /\ respawnTimers = 0
    /\ resolved = << >>
    /\ inFlightAtExit = {}
    /\ exits = 0
    /\ lookup = NoLookup

\* No detector has been given anything yet.
NotRun == [ran |-> FALSE, found |-> << >>]

DetectInit ==
    /\ snapshot = None
    /\ terminalPane = NotRun
    /\ buffer = None
    /\ verticalEdges = [ran |-> FALSE, fullWidth |-> FALSE, found |-> << >>]

PeripheralInit ==
    InputInit /\ ScrollInit /\ WorkerInit /\ DetectInit /\ cycles = << >>

Init ==
    /\ clientStates = << >>
    /\ clientOrder = << >>
    /\ gone = {}
    /\ detectionMode = "dynamic"
    /\ isStreaming = TRUE
    /\ streamInterval = "live"
    /\ detectionInterval = "live"
    /\ isCapturing = FALSE
    /\ running = << >>
    /\ now = 1
    /\ observed = [c \in Clients |-> Overflow]
    /\ ev = NoEvent
    /\ globalFps = DefaultFps
    /\ clientConfigs = << >>
    /\ intervalMs = Interval(DefaultFps)
    /\ saving = 0
    /\ PeripheralInit

Connected == DOMAIN clientStates

-----------------------------------------------------------------------------
(* StreamEngine start / stop / updateInterval *)

\* StreamEngine.start / StreamEngine.stop: the values of
\* << isStreaming, streamInterval, detectionInterval >> they leave.
\* A timer field is "null" before its first setInterval, "live" or "cleared"
\* as the timer it references, and "leaked" once a live timer has lost its
\* reference: that timer goes on firing and nothing can clear it.

\* clearInterval(timer), guarded by "if (timer)".
Cleared(timer) ==
    IF timer = "null" THEN "null"
    ELSE IF timer = "leaked" THEN "leaked" ELSE "cleared"

\* timer = setInterval(...): the field references a new live timer; the one
\* it referenced before is lost, live or not.
Install(timer) == IF timer \in {"live", "leaked"} THEN "leaked" ELSE "live"

\* start(): updateInterval() and startWindowDetection() with isStreaming set.
start ==
    IF isStreaming THEN << isStreaming, streamInterval, detectionInterval >>
    ELSE << TRUE, Install(Cleared(streamInterval)), Install(detectionInterval) >>

\* A stop that clears the capture timer only.
stopKeepsDetection ==
    IF ~isStreaming THEN << isStreaming, streamInterval, detectionInterval >>
    ELSE << FALSE, Cleared(streamInterval), detectionInterval >>

stop ==
    IF ~isStreaming THEN << isStreaming, streamInterval, detectionInterval >>
    ELSE << FALSE, Cleared(streamInterval), Cleared(detectionInterval) >>

\* StreamEngine.updateInterval: the referenced capture timer is cleared and a
\* new one is installed only while streaming.
updateInterval ==
    IF isStreaming THEN Install(Cleared(streamInterval)) ELSE Cleared(streamInterval)

\* The period updateInterval leaves for the clients ids of getAllClients().
updatedIntervalMs(ids) ==
    IF isStreaming THEN Interval(TargetFps(clientConfigs, ids, globalFps))
    ELSE intervalMs

-----------------------------------------------------------------------------
(* Socket handlers of index.js *)

\* io.on('connection'): addClient, then start().
Connect(c) ==
    /\ c \notin Connected /\ c \notin gone
    /\ clientStates' = [x \in Connected \cup {c} |->
                          IF x = c THEN createDefaultClientState(now)
                                   ELSE clientStates[x]]
    /\ clientOrder' = Append(clientOrder, c)
    /\ isStreaming' = start[1]
    /\ streamInterval' = start[2]
    /\ detectionInterval' = start[3]
    /\ clientConfigs' = IF isStreaming THEN clientConfigs
                        ELSE getClientConfig(clientConfigs, Connected \cup {c})
    /\ intervalMs' = IF isStreaming THEN intervalMs
                     ELSE Interval(TargetFps(clientConfigs, Connected \cup {c}, globalFps))
    /\ ev' = NoEvent
    /\ UNCHANGED << gone, detectionMode, isCapturing, running, now, observed,
                    globalFps, saving >>
    /\ UNCHANGED peripheralVars

\* socket.on('disconnect'): removeClient, then stop() or updateInterval().
Disconnect(c) ==
    /\ c \in Connected
    /\ clientStates' = [x \in Connected \ {c} |-> clientStates[x]]
    /\ clientOrder' = SelectSeq(clientOrder, LAMBDA x : x # c)
    /\ gone' = gone \cup {c}
    /\ IF Connected = {c}
       THEN /\ isStreaming' = stop[1]
            /\ streamInterval' = stop[2]
            /\ detectionInterval' = stop[3]
            /\ clientConfigs' = removeClientConfig(clientConfigs, c)
            /\ UNCHANGED intervalMs
       ELSE /\ streamInterval' = updateInterval
            /\ clientConfigs' = getClientConfig(removeClientConfig(clientConfigs, c),
                                                Connected \ {c})
            /\ intervalMs' = IF isStreaming
                             THEN Interval(TargetFps(removeClientConfig(clientConfigs, c),
                                                     Connected \ {c}, globalFps))
                             ELSE intervalMs
            /\ UNCHANGED << isStreaming, detectionInterval >>
    /\ ev' = NoEvent
    /\ UNCHANGED << detectionMode, isCapturing, running, now, observed,
                    globalFps, saving >>
    /\ UNCHANGED peripheralVars

\* socket.on('view:setMode'): clientManager.setMode, then updateInterval().
SetMode(c, mode) ==
    /\ c \in Connected
    /\ clientStates' = [clientStates EXCEPT
                          ![c] = setMode(@, mode, detectionMode, now)]
    /\ streamInterval' = updateInterval
    /\ observed' = [observed EXCEPT
                      ![c] = IF clientStates[c].viewMode # mode
                             THEN Interrupt(@) ELSE @]
    /\ ev' = IF RestoresZone(clientStates[c], mode, detectionMode)
             THEN Event("restore", c)
             ELSE IF IsModeSwitch(clientStates[c], mode)
                  THEN Event("reset", c) ELSE NoEvent
    /\ clientConfigs' = getClientConfig(clientConfigs, Connected)
    /\ intervalMs' = updatedIntervalMs(Connected)
    /\ UNCHANGED << clientOrder, gone, detectionMode, isStreaming,
                    detectionInterval, isCapturing, running, now, globalFps, saving >>
    /\ UNCHANGED peripheralVars

\* socket.on('calibration:reset').
CalibrationReset(c) ==
    /\ c \in Connected
    /\ clientStates' = [clientStates EXCEPT ![c] =
          [setMode(updateActivity(@, now), @.viewMode, detectionMode, now)
             EXCEPT !.calibrationMode = TRUE, !.calibrationStartTime = 0]]
    /\ ev' = NoEvent
    /\ UNCHANGED << clientOrder, gone, detectionMode, isStreaming, streamInterval,
                    detectionInterval, isCapturing, running, now, observed,
                    globalFps, clientConfigs, intervalMs, saving >>
    /\ UNCHANGED peripheralVars

\* socket.on('calibration:resetFixed').
CalibrationResetFixed(c) ==
    /\ c \in Connected
    /\ clientStates' = [clientStates EXCEPT ![c] =
          LET s1 == [updateActivity(@, now) EXCEPT !.fixedChatZone = None,
                                                   !.fixedTerminalZone = None]
          IN  [setMode(s1, s1.viewMode, detectionMode, now)
                 EXCEPT !.calibrationMode = TRUE, !.calibrationStartTime = 0]]
    /\ ev' = NoEvent
    /\ UNCHANGED << clientOrder, gone, detectionMode, isStreaming, streamInterval,
                    detectionInterval, isCapturing, running, now, observed,
                    globalFps, clientConfigs, intervalMs, saving >>
    /\ UNCHANGED peripheralVars

\* The config:update payloads of the model: a new global detectionMode, or a
\* manual capture region (which disables the client's detected window).
\* fps 0 stands for an absent fps.
ConfigPayloads ==
    { [region |-> FALSE, detectionMode |-> "dynamic",   fps |-> 0],
      [region |-> FALSE, detectionMode |-> "fixed",     fps |-> 0],
      [region |-> TRUE,  detectionMode |-> "undefined", fps |-> 0],
      [region |-> FALSE, detectionMode |-> "undefined", fps |-> 5],
      [region |-> FALSE, detectionMode |-> "undefined", fps |-> 60] }

\* The payloads that only set the detection mode.
ModePayloads == { p \in ConfigPayloads : p.detectionMode # "undefined" }

\* The payloads that only set the fps.
FpsPayloads == { p \in ConfigPayloads : p.fps # 0 }

\* socket.on('config:update').
ConfigUpdate(c, newConfig) ==
    /\ c \in Connected
    /\ clientStates' = [clientStates EXCEPT ![c] =
          LET s1 == updateActivity(@, now)
          IN  IF newConfig.region THEN [s1 EXCEPT !.detectedWindow = None] ELSE s1]
    /\ detectionMode' = IF newConfig.detectionMode # "undefined"
                        THEN newConfig.detectionMode ELSE detectionMode
    /\ globalFps' = IF newConfig.fps # 0 THEN SanitizeFps(newConfig.fps) ELSE globalFps
    /\ saving' = IF newConfig.fps # 0 THEN saving + 1 ELSE saving
    /\ saving' <= MaxSaving
    /\ ev' = NoEvent
    /\ UNCHANGED << clientOrder, gone, isStreaming, streamInterval,
                    detectionInterval, isCapturing, running, now, observed,
                    clientConfigs, intervalMs >>
    /\ UNCHANGED peripheralVars

\* saveConfig() of a config:update with an fps has completed: the handler
\* goes on to streamEngine.updateInterval().
SaveDone ==
    /\ saving > 0
    /\ saving' = saving - 1
    /\ streamInterval' = updateInterval
    /\ clientConfigs' = getClientConfig(clientConfigs, Connected)
    /\ intervalMs' = updatedIntervalMs(Connected)
    /\ ev' = NoEvent
    /\ UNCHANGED << clientStates, clientOrder, gone, detectionMode, isStreaming,
                    detectionInterval, isCapturing, running, now, observed, globalFps >>
    /\ UNCHANGED peripheralVars

-----------------------------------------------------------------------------
(* Timers of ClientManager and of the window detection cycle *)

Inactive(st) ==
    st.isActive /\ now - st.lastActivity > INACTIVITY_TIMEOUT_MS

\* ClientManager.checkInactivity (10 s interval).
CheckInactivity ==
    /\ clientStates' = [c \in Connected |->
                          IF Inactive(clientStates[c])
                          THEN [clientStates[c] EXCEPT !.isActive = FALSE,
                                                       !.viewMode = "idle"]
                          ELSE clientStates[c]]
    /\ observed' = [c \in Clients |->
                      IF c \in Connected /\ Inactive(clientStates[c])
                      THEN Interrupt(observed[c]) ELSE observed[c]]
    /\ ev' = NoEvent
    /\ UNCHANGED << clientOrder, gone, detectionMode, isStreaming, streamInterval,
                    detectionInterval, isCapturing, running, now,
                    globalFps, clientConfigs, intervalMs, saving >>
    /\ UNCHANGED peripheralVars

\* One iteration of the window detection cycle (startWindowDetection) for
\* client c: found is what the window lookup of that iteration returned.
WindowDetection(c, found) ==
    /\ detectionInterval = "live"
    /\ c \in Connected
    /\ clientStates[c].viewMode \in {"chat", "terminal", "apps"}
    /\ clientStates[c].isActive
    /\ clientStates' = [clientStates EXCEPT ![c] =
          IF @.viewMode = "apps"
          THEN IF @.streamSource = "window"
               THEN (IF found # None THEN [@ EXCEPT !.detectedWindow = found] ELSE @)
               ELSE [@ EXCEPT !.detectedWindow = None]
          ELSE IF found # None THEN [@ EXCEPT !.detectedWindow = found] ELSE @]
    /\ clientConfigs' = IF clientStates[c].viewMode = "apps" THEN clientConfigs
                        ELSE getClientConfig(clientConfigs, {c})
    /\ ev' = NoEvent
    /\ UNCHANGED << clientOrder, gone, detectionMode, isStreaming, streamInterval,
                    detectionInterval, isCapturing, running, now, observed,
                    globalFps, intervalMs, saving >>
    /\ UNCHANGED peripheralVars

\* The passage of time.
Advance(d, maxNow) ==
    /\ now + d <= maxNow
    /\ now' = now + d
    /\ ev' = NoEvent
    /\ UNCHANGED << clientStates, clientOrder, gone, detectionMode, isStreaming,
                    streamInterval, detectionInterval, isCapturing, running,
                    observed, globalFps, clientConfigs, intervalMs, saving >>
    /\ UNCHANGED peripheralVars

-----------------------------------------------------------------------------
(* StreamEngine.captureAndEmit *)

\* An eligibility that looks at activity only.
EligibleIfActive(st) == st.isActive

Eligible(st) ==
    st.isActive /\ st.viewMode \in {"chat", "terminal", "apps"}

\* activeLinkClients: the eligible clients in Map insertion order.
activeLinkClients ==
    SelectSeq(clientOrder, LAMBDA c : Eligible(clientStates[c]))

RemoveAt(s, k) == [j \in 1..(Len(s) - 1) |-> IF j < k THEN s[j] ELSE s[j + 1]]

\* A loop that goes back to the client it has just served.
NextWithSocketRepeats(list, j) ==
    LET S == { n \in (IF j > 1 THEN j - 1 ELSE j)..Len(list) : list[n] \in Connected }
    IN  IF S = {} THEN Len(list) + 1 ELSE CHOOSE n \in S : \A m \in S : n <= m

\* The first index from j on whose client still has a socket ("continue"
\* skips the others), Len(list) + 1 when there is none.
NextWithSocket(list, j) ==
    LET S == { n \in j..Len(list) : list[n] \in Connected }
    IN  IF S = {} THEN Len(list) + 1 ELSE CHOOSE n \in S : \A m \in S : n <= m

\* Where a client's processing can throw before its encode: "base" is the crop
\* to the base region (line 185), "crop" a stable or manual crop (lines 199-225).
Failures == {"none", "base", "crop"}

AllPaneResults == PaneResults("chat") \cup PaneResults("terminal")

\* Line 194: pane detection runs only for a client with a detected window in
\* chat or terminal mode.
RunsPaneDetection(st) ==
    st.detectedWindow # None /\ st.viewMode \in {"chat", "terminal"}

\* An end of tick that releases the guard only when no client failed.
EndTickKeepsGuard(k, served, failedAt) ==
    /\ isCapturing' = (failedAt > 0)
    /\ running' = RemoveAt(running, k)

\* The finally block, with the record of the execution that ends.
EndTick(k, served, failedAt) ==
    /\ isCapturing' = FALSE
    /\ running' = RemoveAt(running, k)

\* The for loop from index j up to its next suspension (the encode of a
\* client), its normal end, or a throw: op and frames describe what the
\* resumed execution did before it reached the loop.
LoopFrom(k, j, res, fail, op, frames) ==
    LET ex == running[k]
        i == NextWithSocket(ex.list, j)
        served == ex.served \cup frames
    IN  IF i > Len(ex.list)
        THEN /\ EndTick(k, served, 0)
             /\ ev' = [Event(op, "-") EXCEPT !.frames = frames,
                         !.ended = Some([list |-> ex.list, served |-> served,
                                         failedAt |-> 0])]
             /\ res = None /\ fail = "none"
             /\ UNCHANGED << clientStates, observed, clientConfigs >>
        ELSE LET c == ex.list[i]
                 st == clientStates[c]
                 isFixedMode == detectionMode = "fixed"
                 detect == fail # "base" /\ RunsPaneDetection(st)
                 located == detect /\ InvokesLocator(CalibrationClock(st, now), isFixedMode)
             IN  /\ res \in (IF located THEN PaneResults(st.viewMode) ELSE {None})
                 /\ clientStates' = [clientStates EXCEPT ![c] =
                       IF detect THEN performPaneDetection(st, now, isFixedMode, res)
                       ELSE st]
                 /\ observed' = [observed EXCEPT ![c] = Observe(@, res)]
                 /\ clientConfigs' = getClientConfig(clientConfigs, {c})
                 /\ IF fail = "none"
                    THEN /\ running' = [running EXCEPT ![k].i = i, ![k].served = served]
                         /\ UNCHANGED isCapturing
                         /\ ev' = [Event(op, c) EXCEPT !.frames = frames,
                                     !.located = located, !.pane = res]
                    ELSE /\ EndTick(k, served, i)
                         /\ ev' = [Event(op, c) EXCEPT !.frames = frames,
                                     !.located = located, !.pane = res,
                                     !.ended = Some([list |-> ex.list, served |-> served,
                                                     failedAt |-> i])]

\* A guard that never holds.
InFlightNever == FALSE

\* Line 135: the in-flight guard.
InFlight == isCapturing

\* A fire of the capture timer: the synchronous head of captureAndEmit.
TimerFire(maxFrames) ==
    /\ streamInterval = "live"
    /\ \A c \in Connected : clientStates[c].frameCount < maxFrames
    /\ IF InFlight
       THEN /\ ev' = Event("skip", "-")
            /\ UNCHANGED << isCapturing, running >>
       ELSE IF Len(activeLinkClients) = 0
            THEN /\ isCapturing' = FALSE
                 /\ ev' = Event("idle", "-")
                 /\ UNCHANGED running
            ELSE /\ isCapturing' = TRUE
                 /\ running' = Append(running, [list |-> activeLinkClients,
                                                i |-> 0, served |-> {}])
                 /\ ev' = NoEvent
    /\ UNCHANGED << clientStates, clientOrder, gone, detectionMode, isStreaming,
                    streamInterval, detectionInterval, now, observed,
                    globalFps, clientConfigs, intervalMs, saving >>
    /\ UNCHANGED peripheralVars

\* screenshot() and Jimp.read() have completed (ok) or thrown.
AfterScreenshot(k, ok, res, fail) ==
    /\ k \in 1..Len(running)
    /\ running[k].i = 0
    /\ IF ok
       THEN LoopFrom(k, 1, res, fail, "capture", {})
       ELSE /\ res = None /\ fail = "none"
            /\ EndTick(k, {}, 0)
            /\ ev' = [Event("capture", "-") EXCEPT
                        !.ended = Some([list |-> running[k].list, served |-> {},
                                        failedAt |-> 0])]
            /\ UNCHANGED << clientStates, observed, clientConfigs >>
    /\ UNCHANGED << clientOrder, gone, detectionMode, isStreaming, streamInterval,
                    detectionInterval, now, globalFps, intervalMs, saving >>
    /\ UNCHANGED peripheralVars

\* getBuffer() of the client at index i has completed (ok) or thrown: the
\* frame is emitted and the loop goes on.
AfterEncode(k, ok, res, fail) ==
    /\ k \in 1..Len(running)
    /\ running[k].i > 0
    /\ LET ex == running[k]
           c == ex.list[ex.i]
       IN  IF ok
           THEN LoopFrom(k, ex.i + 1, res, fail, "capture", {c})
           ELSE /\ res = None /\ fail = "none"
                /\ EndTick(k, ex.served, ex.i)
                /\ ev' = [Event("capture", "-") EXCEPT
                            !.ended = Some([list |-> ex.list, served |-> ex.served,
                                            failedAt |-> ex.i])]
                /\ UNCHANGED << clientStates, observed, clientConfigs >>
    /\ UNCHANGED << clientOrder, gone, detectionMode, isStreaming, streamInterval,
                    detectionInterval, now, globalFps, intervalMs, saving >>
    /\ UNCHANGED peripheralVars

-----------------------------------------------------------------------------
(* Specifications *)

Found == { Some(w) : w \in WindowBounds }

\* The steps of an execution of captureAndEmit that resume it after an await.
CaptureSteps(results, failures) ==
    \E k \in 1..Len(running), ok \in BOOLEAN, res \in results, fail \in failures :
       \/ AfterScreenshot(k, ok, res, fail)
       \/ AfterEncode(k, ok, res, fail)

\* Spec: the detection state machine of one client, from its creation on,
\* under every event that reads or writes it.
Next ==
    \/ Connect("c1")
    \/ Disconnect("c1")
    \/ \E mode \in PaneModes : SetMode("c1", mode)
    \/ CalibrationReset("c1")
    \/ CalibrationResetFixed("c1")
    \/ \E newConfig \in ModePayloads : ConfigUpdate("c1", newConfig)
    \/ \E found \in Found : WindowDetection("c1", found)
    \/ Advance(CALIBRATION_DURATION, MaxNow)
    \/ TimerFire(MaxFrames)
    \/ CaptureSteps(AllPaneResults, Failures)

Spec == Init /\ [][Next]_vars

\* SpecCalib: the calibration of a client from its creation on, with the
\* series of Pane Locator results recorded.
InitCalib ==
    /\ clientStates = << >>
    /\ clientOrder = << >>
    /\ gone = {}
    /\ detectionMode = "dynamic"
    /\ isStreaming = TRUE
    /\ streamInterval = "live"
    /\ detectionInterval = "live"
    /\ isCapturing = FALSE
    /\ running = << >>
    /\ now = 1
    /\ observed = [c \in Clients |-> NoneObserved]
    /\ ev = NoEvent
    /\ globalFps = DefaultFps
    /\ clientConfigs = << >>
    /\ intervalMs = Interval(DefaultFps)
    /\ saving = 0
    /\ PeripheralInit

NextCalib ==
    \/ Connect("c1")
    \/ \E mode \in PaneModes : SetMode("c1", mode)
    \/ \E newConfig \in ModePayloads : ConfigUpdate("c1", newConfig)
    \/ \E found \in Found : WindowDetection("c1", found)
    \/ TimerFire(MaxFrames)
    \/ CaptureSteps(AllPaneResults, {"none"})

SpecCalib == InitCalib /\ [][NextCalib]_vars

\* SpecLock: the fixed-mode lock over enough frames for the every-10th-frame
\* cadence, with two agreeing panes per view mode.
LockResults ==
    {None, Some([x |-> 620, y |-> 0, width |-> 380, height |-> 800]),
           Some([x |-> 622, y |-> 0, width |-> 378, height |-> 800]),
           Some([x |-> 0, y |-> 600, width |-> 1000, height |-> 175]),
           Some([x |-> 0, y |-> 603, width |-> 900, height |-> 172])}

NextLock ==
    \/ Connect("c1")
    \/ \E mode \in PaneModes : SetMode("c1", mode)
    \/ CalibrationReset("c1")
    \/ CalibrationResetFixed("c1")
    \/ \E newConfig \in ModePayloads : ConfigUpdate("c1", newConfig)
    \/ \E found \in Found : WindowDetection("c1", found)
    \/ TimerFire(MaxLockFrames)
    \/ CaptureSteps(LockResults, {"none"})

SpecLock == Init /\ [][NextLock]_vars

\* The payloads that set the detection mode to fixed.
FixedPayloads == { p \in ModePayloads : p.detectionMode = "fixed" }

\* SpecFixed: the detection mode is switched to fixed and stays fixed, while
\* one client switches views, resets its calibration and locks its panes.
NextFixed ==
    \/ Connect("c1")
    \/ \E mode \in PaneModes \cup {"apps"} : SetMode("c1", mode)
    \/ CalibrationReset("c1")
    \/ CalibrationResetFixed("c1")
    \/ \E newConfig \in FixedPayloads : ConfigUpdate("c1", newConfig)
    \/ \E found \in Found : WindowDetection("c1", found)
    \/ Advance(CALIBRATION_DURATION, MaxNow)
    \/ TimerFire(MaxFrames)
    \/ CaptureSteps(LockResults, {"none"})

SpecFixed == Init /\ [][NextFixed]_vars

\* SpecIdle: one client that goes inactive, is woken up by config updates
\* and view switches, and is served by capture ticks.
NextIdle ==
    \/ Connect("c1")
    \/ \E mode \in ViewModes : SetMode("c1", mode)
    \/ \E newConfig \in ModePayloads : ConfigUpdate("c1", newConfig)
    \/ CheckInactivity
    \/ Advance(INACTIVITY_TIMEOUT_MS + 1, MaxSchedNow)
    \/ TimerFire(MaxFrames)
    \/ CaptureSteps({None}, {"none"})

SpecIdle == Init /\ [][NextIdle]_vars

\* The bounds of the window after it has been made smaller.
ShrunkBounds == [x |-> 0, y |-> 0, width |-> 500, height |-> 400]

\* What the Pane Locator can return for the client image of c: a pane of the
\* 1000x800 window, nothing once the window has shrunk.
CropResults(c) ==
    IF c \in Connected /\ clientStates[c].detectedWindow = Some(ShrunkBounds)
    THEN {None}
    ELSE LockResults

\* SpecCrop: one client whose tracked window is found at its full size or
\* shrunk while capture ticks commit and apply its stable crop.
NextCrop ==
    \/ Connect("c1")
    \/ \E mode \in PaneModes : SetMode("c1", mode)
    \/ \E found \in Found \cup {Some(ShrunkBounds)} : WindowDetection("c1", found)
    \/ TimerFire(MaxFrames)
    \/ CaptureSteps(CropResults("c1"), {"none"})

SpecCrop == Init /\ [][NextCrop]_vars

\* SpecSched: the capture scheduler with two clients, without detected windows
\* (no pane detection runs).
NextSched ==
    \/ \E c \in Clients :
          \/ Connect(c)
          \/ Disconnect(c)
          \/ \E mode \in ViewModes : SetMode(c, mode)
    \/ CheckInactivity
    \/ Advance(INACTIVITY_TIMEOUT_MS + 1, MaxSchedNow)
    \/ TimerFire(MaxFrames)
    \/ CaptureSteps({None}, Failures)

SpecSched == Init /\ [][NextSched]_vars

\* SpecClock: the calibration clock of one chat client whose window can be
\* found, not found, or replaced by a manual region.
ClockPayloads == { p \in ConfigPayloads : p.fps = 0 }

ClockResults == {None, Some([x |-> 620, y |-> 0, width |-> 380, height |-> 800])}

NextClock ==
    \/ Connect("c1")
    \/ \E newConfig \in ClockPayloads : ConfigUpdate("c1", newConfig)
    \/ \E found \in {None} \cup Found : WindowDetection("c1", found)
    \/ Advance(CALIBRATION_DURATION, MaxNow)
    \/ TimerFire(MaxFrames)
    \/ CaptureSteps(ClockResults, {"none"})

SpecClock == Init /\ [][NextClock]_vars

\* SpecCadence: the re-detection cadence of one client over enough frames
\* for the every-10th-frame rule, with the calibration deadline.
CadenceResults ==
    {None, Some([x |-> 620, y |-> 0, width |-> 380, height |-> 800]),
           Some([x |-> 0, y |-> 600, width |-> 1000, height |-> 175])}

NextCadence ==
    \/ Connect("c1")
    \/ \E mode \in PaneModes : SetMode("c1", mode)
    \/ \E newConfig \in ModePayloads : ConfigUpdate("c1", newConfig)
    \/ \E found \in Found : WindowDetection("c1", found)
    \/ Advance(CALIBRATION_DURATION, MaxNow)
    \/ TimerFire(MaxLockFrames)
    \/ CaptureSteps(CadenceResults, {"none"})

SpecCadence == Init /\ [][NextCadence]_vars

\* SpecFps: the period of the capture timer with two clients, under changes
\* of the global fps, of view modes and of activity.
NextFps ==
    \/ \E c \in Clients :
          \/ Connect(c)
          \/ Disconnect(c)
          \/ \E mode \in ViewModes : SetMode(c, mode)
          \/ \E newConfig \in FpsPayloads : ConfigUpdate(c, newConfig)
    \/ SaveDone
    \/ CheckInactivity
    \/ Advance(INACTIVITY_TIMEOUT_MS + 1, MaxSchedNow)

SpecFps == Init /\ [][NextFps]_vars

\* SpecGone: connections and disconnections of two clients among capture
\* ticks, detection cycles and global fps updates.
NextGone ==
    \/ \E c \in Clients :
          \/ Connect(c)
          \/ Disconnect(c)
          \/ \E mode \in {"chat", "config"} : SetMode(c, mode)
          \/ \E found \in Found : WindowDetection(c, found)
          \/ \E newConfig \in FpsPayloads : ConfigUpdate(c, newConfig)
    \/ SaveDone
    \/ TimerFire(MaxGoneFrames)
    \/ CaptureSteps({None}, {"none"})

SpecGone == Init /\ [][NextGone]_vars

-----------------------------------------------------------------------------
(* Input handlers of index.js: input:click *)

\* getEffectiveConfig, lines 402-405: the crop margins of a view mode.
EffectiveCrop(viewMode, crops) ==
    IF viewMode = "chat" THEN crops.chat ELSE crops.terminal

\* captureAndEmit, lines 220-223: the manual crop is applied only when it
\* leaves a non-empty image.
ManualCropApplies(final, crop) ==
    /\ final.height - crop.top - crop.bottom > 0
    /\ final.width - crop.left - crop.right > 0

\* The absolute origin of the image sent for the final region.
DisplayedOrigin(final, crop) ==
    IF ManualCropApplies(final, crop)
    THEN [x |-> final.x + crop.left, y |-> final.y + crop.top]
    ELSE [x |-> final.x, y |-> final.y]

\* Math.round(n / d) for d > 0.
Round(n, d) == (2 * n + d) \div (2 * d)

\* A DPI scale is the pair << physical, logical >> of its fraction.
Scales == { << 1, 1 >>, << 3, 2 >>, << 2, 1 >> }

\* input:click, lines 617-624, outside low-resource mode (downscale 1):
\* the logical position handed to robot.moveMouse.
ClickTarget(area, crop, scale, pos) ==
    [ x |-> Round((area.x + pos.x + crop.left) * scale[2], scale[1]),
      y |-> Round((area.y + pos.y + crop.top) * scale[2], scale[1]) ]

\* The final regions a loop iteration of captureAndEmit reaches after its
\* stable crops: a chat pane, a low window, the whole window.
FinalAreas ==
    { [x |-> 620, y |-> 0, width |-> 380, height |-> 800],
      [x |-> 0,   y |-> 0, width |-> 1000, height |-> 60],
      [x |-> 100, y |-> 50, width |-> 1000, height |-> 800] }

\* The tail of a loop iteration of captureAndEmit for client c (lines
\* 216-241) whose stable crops have left the region final: lastCaptureArea
\* is recorded before the manual crop, then the image is cropped and sent.
FrameSent(c, final) ==
    /\ c \in Connected
    /\ Eligible(clientStates[c])
    /\ lastCaptureArea' = [lastCaptureArea EXCEPT ![c] = Some(final)]
    /\ LET crop == EffectiveCrop(clientStates[c].viewMode, cropConfig)
       IN  shown' = [shown EXCEPT ![c] =
                       Some([origin |-> DisplayedOrigin(final, crop), crop |-> crop])]
    /\ UNCHANGED << engineVars, cropConfig, clicking, pointer, mouseClicks,
                    scrollAccumulatorY, scrollSum, uncaught, delegated, scrollVars, workerVars, detectVars, cycles >>

\* updateGlobalConfig, lines 188-204: a crop margin is made non-negative.
SanitizeCrop(v) == IF v < 0 THEN 0 ELSE v

\* config:update, lines 846-849: an absent margin keeps the active one.
MergeCrop(new, active) ==
    [ side \in {"top", "bottom", "left", "right"} |->
        IF new[side] = None THEN SanitizeCrop(active[side])
        ELSE SanitizeCrop(Get(new[side])) ]

\* The crop payloads of config:update in the model.
CropPayloads ==
    { [top |-> None,     bottom |-> None,     left |-> Some(20),  right |-> None],
      [top |-> Some(0),  bottom |-> Some(0),  left |-> Some(200), right |-> Some(200)],
      [top |-> Some(-5), bottom |-> Some(40), left |-> None,      right |-> None] }

\* socket.on('config:update') with a payload of crop margins only: the crop
\* of the client's view mode is replaced and saved, and nothing follows the
\* save.
CropUpdate(c, newConfig) ==
    /\ c \in Connected
    /\ clientStates' = [clientStates EXCEPT ![c] = updateActivity(@, now)]
    /\ LET name == IF clientStates[c].viewMode = "chat" THEN "chat" ELSE "terminal"
       IN  cropConfig' = [cropConfig EXCEPT
                            ![name] = MergeCrop(newConfig, cropConfig[name])]
    /\ UNCHANGED << clientOrder, gone, detectionMode, isStreaming, streamInterval,
                    detectionInterval, isCapturing, running, now, observed, ev,
                    globalFps, clientConfigs, intervalMs, saving >>
    /\ UNCHANGED << lastCaptureArea, shown, clicking, pointer, mouseClicks,
                    scrollAccumulatorY, scrollSum, uncaught, delegated, scrollVars, workerVars, detectVars, cycles >>

\* The payloads of input:click: given is FALSE for an absent payload, a
\* coordinate is None when it is not a number.
ClickPayloads ==
    { [given |-> FALSE, x |-> None,     y |-> None],
      [given |-> TRUE,  x |-> None,     y |-> Some(25)],
      [given |-> TRUE,  x |-> Some(10), y |-> None],
      [given |-> TRUE,  x |-> Some(0),  y |-> Some(0)],
      [given |-> TRUE,  x |-> Some(10), y |-> Some(25)] }

\* Line 600: the payload has numeric x and y.
WellFormedClick(pos) == pos.given /\ pos.x # None /\ pos.y # None

\* socket.on('input:click') up to its first await (screenshot()).
InputClick(c, pos) ==
    /\ c \in Connected
    /\ clientStates' = [clientStates EXCEPT ![c] = updateActivity(@, now)]
    /\ IF WellFormedClick(pos) /\ lastCaptureArea[c] # None
       THEN /\ Len(clicking) < MaxClicking
            /\ clicking' = Append(clicking,
                  [kind |-> "click", c |-> c, ticks |-> 0,
                   crop |-> EffectiveCrop(clientStates[c].viewMode, cropConfig),
                   x |-> Get(pos.x), y |-> Get(pos.y)])
       ELSE UNCHANGED clicking
    /\ UNCHANGED << clientOrder, gone, detectionMode, isStreaming, streamInterval,
                    detectionInterval, isCapturing, running, now, observed, ev,
                    globalFps, clientConfigs, intervalMs, saving >>
    /\ UNCHANGED << cropConfig, lastCaptureArea, shown, pointer, mouseClicks,
                    scrollAccumulatorY, scrollSum, uncaught, delegated, scrollVars, workerVars, detectVars, cycles >>

\* screenshot() and Jimp.read() of the k-th pending handler, a click, have completed
\* (ok) or thrown; scale is the DPI scale of the snapshot. The capture area
\* and the margins are read now, and the pointer is moved and clicked.
ClickResume(k, ok, scale) ==
    /\ k \in 1..Len(clicking)
    /\ clicking[k].kind = "click"
    /\ clicking[k].c \in Connected
    /\ clicking' = RemoveAt(clicking, k)
    /\ IF ok
       THEN LET c == clicking[k].c
                crop == EffectiveCrop(clientStates[c].viewMode, cropConfig)
            IN  /\ mouseClicks < MaxClicks
                /\ pointer' = Some(ClickTarget(Get(lastCaptureArea[c]), crop, scale,
                                               clicking[k]))
                /\ mouseClicks' = mouseClicks + 1
       ELSE UNCHANGED << pointer, mouseClicks >>
    /\ UNCHANGED << engineVars, cropConfig, lastCaptureArea, shown,
                    scrollAccumulatorY, scrollSum, uncaught, delegated, scrollVars, workerVars, detectVars, cycles >>

\* SpecClick: one chat client whose frames, crop margins and clicks follow
\* one another in every order.
NextClick ==
    \/ Connect("c1")
    \/ \E final \in FinalAreas : FrameSent("c1", final)
    \/ \E newConfig \in CropPayloads : CropUpdate("c1", newConfig)
    \/ \E pos \in ClickPayloads : InputClick("c1", pos)
    \/ \E k \in 1..MaxClicking, ok \in BOOLEAN, scale \in Scales : ClickResume(k, ok, scale)

SpecClick == Init /\ [][NextClick]_vars

-----------------------------------------------------------------------------
(* ScrollWorker *)

\* ScrollWorker.scroll(amount): nothing is written once stdin is destroyed
\* (proc is never null and never killed); a write into the broken pipe of an
\* exited helper is lost.
Scroll(amount) ==
    /\ Len(scrollRequested) < MaxScrolls
    /\ scrollRequested' = Append(scrollRequested, amount)
    /\ scrollPipe' = IF scrollStdin = "open" THEN Append(scrollPipe, amount)
                     ELSE scrollPipe

NoScroll == UNCHANGED << scrollPipe, scrollRequested >>

\* The helper executes the next command of its input.
ScrollExecute ==
    /\ scrollProc = "running"
    /\ scrollPipe # << >>
    /\ scrollExecuted' = Append(scrollExecuted, Head(scrollPipe))
    /\ scrollPipe' = Tail(scrollPipe)
    /\ UNCHANGED << scrollProc, scrollStdin, scrollRequested >>
    /\ UNCHANGED << engineVars, inputVars, workerVars, detectVars, cycles >>

\* The helper exits: what it has not executed is lost, and the exit handler
\* schedules init() (lines 37-40).
ScrollExit ==
    /\ scrollProc = "running"
    /\ scrollProc' = "exited"
    /\ scrollStdin' = "broken"
    /\ scrollPipe' = << >>
    /\ UNCHANGED << scrollRequested, scrollExecuted >>
    /\ UNCHANGED << engineVars, inputVars, workerVars, detectVars, cycles >>

\* The stdin stream of the exited helper is destroyed.
ScrollStdinClose ==
    /\ scrollProc = "exited"
    /\ scrollStdin = "broken"
    /\ scrollStdin' = "destroyed"
    /\ UNCHANGED << scrollProc, scrollPipe, scrollRequested, scrollExecuted >>
    /\ UNCHANGED << engineVars, inputVars, workerVars, detectVars, cycles >>

\* The restart timer fires: init() spawns a new helper.
ScrollRespawn ==
    /\ scrollProc = "exited"
    /\ scrollProc' = "running"
    /\ scrollStdin' = "open"
    /\ scrollPipe' = << >>
    /\ UNCHANGED << scrollRequested, scrollExecuted >>
    /\ UNCHANGED << engineVars, inputVars, workerVars, detectVars, cycles >>

-----------------------------------------------------------------------------
(* Input handlers of index.js: input:scroll *)

\* Math.trunc(n / d) for d > 0.
Trunc(n, d) == IF n >= 0 THEN n \div d ELSE -((-n) \div d)

\* An accumulator that emits the ticks without giving them up.
TakeTicksKeeps(acc) == [ticks |-> Trunc(acc, 100), rest |-> acc]

\* Lines 666-670: the whole ticks of an accumulator (in 1/100) and what is
\* left of it.
TakeTicks(acc) ==
    IF Abs(acc) >= 100
    THEN [ticks |-> Trunc(acc, 100), rest |-> acc - 100 * Trunc(acc, 100)]
    ELSE [ticks |-> 0, rest |-> acc]

\* The payloads of input:scroll: deltaY in 1/10 (None when it is not a
\* number), coords the optional touch position.
ScrollPayloads ==
    { [given |-> FALSE, deltaY |-> None,     isThreeFinger |-> FALSE, coords |-> None],
      [given |-> TRUE,  deltaY |-> None,     isThreeFinger |-> TRUE,  coords |-> None],
      [given |-> TRUE,  deltaY |-> Some(4),  isThreeFinger |-> TRUE,  coords |-> None],
      [given |-> TRUE,  deltaY |-> Some(-7), isThreeFinger |-> TRUE,  coords |-> None],
      [given |-> TRUE,  deltaY |-> Some(15), isThreeFinger |-> TRUE,
       coords |-> Some([x |-> 10, y |-> 25])],
      [given |-> TRUE,  deltaY |-> Some(10), isThreeFinger |-> FALSE, coords |-> None],
      [given |-> TRUE,  deltaY |-> Some(4),  isThreeFinger |-> FALSE, coords |-> None] }

\* The effective scroll sensitivities of the model, in 1/10.
Sensitivities == { 10, 20 }

\* Line 650: the payload has a numeric deltaY.
WellFormedScroll(data) == data.given /\ data.deltaY # None

\* socket.on('input:scroll') up to its await of screenshot(), or to its end
\* when the payload has no coordinates; sens is the sensitivity the
\* effective config holds for the kind of scroll.
InputScroll(c, data, sens) ==
    /\ c \in Connected
    /\ clientStates' = [clientStates EXCEPT ![c] = updateActivity(@, now)]
    /\ IF ~WellFormedScroll(data) \/ lastCaptureArea[c] = None
       THEN /\ UNCHANGED << scrollAccumulatorY, scrollSum, clicking >>
            /\ NoScroll
       ELSE LET amount == Get(data.deltaY) * sens
                taken == TakeTicks(scrollAccumulatorY[c] + amount)
                scrollTicks == IF data.isThreeFinger THEN taken.ticks
                               ELSE Round(amount, 100)
            IN  /\ data.isThreeFinger => Abs(scrollSum[c].ticks + scrollTicks) <= MaxTicks
                /\ scrollAccumulatorY' =
                      IF data.isThreeFinger
                      THEN [scrollAccumulatorY EXCEPT ![c] = taken.rest]
                      ELSE scrollAccumulatorY
                /\ scrollSum' =
                      IF data.isThreeFinger
                      THEN [scrollSum EXCEPT ![c] = [input |-> @.input + amount,
                                                     ticks |-> @.ticks + scrollTicks]]
                      ELSE scrollSum
                /\ IF scrollTicks = 0 /\ ~data.isThreeFinger
                   THEN UNCHANGED clicking /\ NoScroll
                   ELSE IF data.coords # None
                        THEN /\ Len(clicking) < MaxClicking
                             /\ clicking' = Append(clicking,
                                   [kind |-> "scroll", c |-> c, ticks |-> scrollTicks,
                                    crop |-> EffectiveCrop(clientStates[c].viewMode,
                                                           cropConfig),
                                    x |-> Get(data.coords).x, y |-> Get(data.coords).y])
                             /\ NoScroll
                        ELSE /\ UNCHANGED clicking
                             /\ IF scrollTicks # 0 THEN Scroll(scrollTicks * 120)
                                ELSE NoScroll
    /\ UNCHANGED << clientOrder, gone, detectionMode, isStreaming, streamInterval,
                    detectionInterval, isCapturing, running, now, observed, ev,
                    globalFps, clientConfigs, intervalMs, saving >>
    /\ UNCHANGED << cropConfig, lastCaptureArea, shown, pointer, mouseClicks,
                    uncaught, delegated, scrollProc, scrollStdin, scrollExecuted,
                    workerVars, detectVars, cycles >>

\* screenshot() and Jimp.read() of the k-th pending handler, a scroll with
\* coordinates, have completed (ok) or thrown: the pointer is moved and the
\* ticks are handed to the ScrollWorker (lines 686-705).
ScrollResume(k, ok, scale) ==
    /\ k \in 1..Len(clicking)
    /\ clicking[k].kind = "scroll"
    /\ clicking[k].c \in Connected
    /\ clicking' = RemoveAt(clicking, k)
    /\ IF ok
       THEN /\ pointer' = Some(ClickTarget(Get(lastCaptureArea[clicking[k].c]),
                                           clicking[k].crop, scale, clicking[k]))
            /\ IF clicking[k].ticks # 0 THEN Scroll(clicking[k].ticks * 120)
               ELSE NoScroll
       ELSE UNCHANGED pointer /\ NoScroll
    /\ UNCHANGED << engineVars, cropConfig, lastCaptureArea, shown, mouseClicks,
                    scrollAccumulatorY, scrollSum, uncaught, delegated,
                    scrollProc, scrollStdin, scrollExecuted, workerVars, detectVars, cycles >>

\* The capture area of the scroll specifications.
ScrollArea == [x |-> 620, y |-> 0, width |-> 380, height |-> 800]

\* SpecScroll: the scroll events of one client and the life of the scroll
\* helper.
NextScroll ==
    \/ Connect("c1")
    \/ FrameSent("c1", ScrollArea)
    \/ \E data \in ScrollPayloads, sens \in Sensitivities : InputScroll("c1", data, sens)
    \/ \E k \in 1..MaxClicking, ok \in BOOLEAN : ScrollResume(k, ok, << 1, 1 >>)
    \/ ScrollExecute
    \/ ScrollExit
    \/ ScrollStdinClose
    \/ ScrollRespawn

SpecScroll == Init /\ [][NextScroll]_vars

\* The three-finger payloads without coordinates.
AccumPayloads == { p \in ScrollPayloads : p.isThreeFinger /\ p.coords = None }

\* SpecAccum: the three-finger scroll events of two clients with a helper
\* that stays up.
NextAccum ==
    \/ \E c \in Clients :
          \/ Connect(c)
          \/ FrameSent(c, ScrollArea)
          \/ \E data \in AccumPayloads, sens \in Sensitivities : InputScroll(c, data, sens)
    \/ ScrollExecute

SpecAccum == Init /\ [][NextAccum]_vars

-----------------------------------------------------------------------------
(* WindowDetectorWorker *)

cacheTTL == 2000
CALL_TIMEOUT == 3000

\* Lines 131 and 170: the cache key of a lookup.
CacheKey(kind, arg) == kind \o ":" \o arg

\* The lookups of the model: kind and argument (a title pattern, or a handle
\* as the template literal prints it).
Lookups ==
    { [kind |-> "title",  arg |-> "5"],
      [kind |-> "handle", arg |-> "5"] }

\* The results a helper can print after the id: NOT_FOUND (the empty list
\* of fields), four comma-separated numbers, or fewer.
NotFound == << >>
HelperResults == { NotFound, << 100, 50, 640, 480 >> }

\* WindowDetectorWorker.parseResult.
parseResult(result) ==
    IF Len(result) = 4
    THEN Some([x |-> result[1], y |-> result[2], width |-> result[3],
               height |-> result[4]])
    ELSE None

\* f with the entry of key k set to v, and without it.
Put(f, k, v) == [x \in DOMAIN f \cup {k} |-> IF x = k THEN v ELSE f[x]]
Drop(f, k) == [x \in DOMAIN f \ {k} |-> f[x]]

\* One more call of resolve() for the call id.
Resolve(id, value) ==
    Put(resolved, id, IF id \in DOMAIN resolved THEN Append(resolved[id], value)
                      ELSE << value >>)

\* A freshness test that keeps an entry for good.
FreshForever(entry, t) == TRUE

\* Lines 133 and 172: the entry is younger than the TTL.
Fresh(entry, t) == t - entry.time < cacheTTL

\* An id that is allocated once and then used again.
SameCallId(id) == IF id = 0 THEN 1 ELSE id

\* Lines 143 and 182: ++this.callId.
NextCallId(id) == id + 1

\* Lines 152 and 189: the command of a handle lookup ends with a newline;
\* that of a title lookup ends with a backslash and the letter n, the
\* template literal having the backslash escaped.
EndsLine(kind) == kind = "handle"

\* findWindowBounds(arg) with a string pattern, and findWindowBoundsByHandle
\* (arg): a fresh cached entry is returned; a worker that is not ready or
\* whose process is killed resolves null; otherwise a call is issued and
\* its command written after what the helper's input holds since the last
\* newline.
Lookup(kind, arg) ==
    LET key == CacheKey(kind, arg)
        cached == key \in DOMAIN cache
    IN  /\ IF cached /\ Fresh(cache[key], now)
           THEN /\ lookup' = [key |-> key, hit |-> TRUE, value |-> cache[key].value,
                              id |-> 0]
                /\ UNCHANGED << callId, pendingCallbacks, helperIn, helperPartial, timeouts >>
           ELSE IF ~isReady \/ proc.killed
                THEN /\ lookup' = [NoLookup EXCEPT !.key = key]
                     /\ UNCHANGED << callId, pendingCallbacks, helperIn, helperPartial, timeouts >>
                ELSE /\ callId' = NextCallId(callId)
                     /\ pendingCallbacks' = Put(pendingCallbacks, NextCallId(callId),
                                              [cacheKey |-> key, kind |-> kind, arg |-> arg])
                     /\ helperIn' =
                           IF proc.alive /\ EndsLine(kind)
                           THEN Append(helperIn, Append(helperPartial, NextCallId(callId)))
                           ELSE helperIn
                     /\ helperPartial' =
                           IF ~proc.alive THEN helperPartial
                           ELSE IF EndsLine(kind) THEN << >>
                           ELSE Append(helperPartial, NextCallId(callId))
                     /\ timeouts' = Put(timeouts, NextCallId(callId), now + CALL_TIMEOUT)
                     /\ lookup' = [NoLookup EXCEPT !.key = key, !.id = NextCallId(callId)]
        /\ UNCHANGED << proc, isReady, cache, cachedBy, helperOut, respawnTimers, resolved,
                        inFlightAtExit, exits >>
        /\ UNCHANGED << engineVars, inputVars, scrollVars, detectVars, cycles >>

\* The helper executes the next line, one command, and prints "id:result".
HelperAnswer(result) ==
    /\ proc.alive
    /\ helperIn # << >>
    /\ Len(Head(helperIn)) = 1
    /\ helperIn' = Tail(helperIn)
    /\ helperOut' = Append(helperOut, [id |-> Head(helperIn)[1], result |-> result])
    /\ UNCHANGED << proc, isReady, pendingCallbacks, callId, cache, cachedBy,
                    helperPartial, timeouts,
                    respawnTimers, resolved, inFlightAtExit, exits, lookup >>
    /\ UNCHANGED << engineVars, inputVars, scrollVars, detectVars, cycles >>

\* The lines "id:result" for the ids to which answers gives a result.
RECURSIVE Printed(_, _)
Printed(ids, answers) ==
    IF ids = << >> THEN << >>
    ELSE (IF answers[Head(ids)] = None THEN << >>
          ELSE << [id |-> Head(ids), result |-> Get(answers[Head(ids)])] >>)
         \o Printed(Tail(ids), answers)

\* The helper executes a line in which several commands run together, the
\* earlier ones lacking their newline: what PowerShell makes of such a line
\* is not fixed by the source, so it may print a result for any of the ids.
HelperGarbled(answers) ==
    /\ proc.alive
    /\ helperIn # << >>
    /\ Len(Head(helperIn)) > 1
    /\ DOMAIN answers = { Head(helperIn)[i] : i \in 1..Len(Head(helperIn)) }
    /\ helperIn' = Tail(helperIn)
    /\ helperOut' = helperOut \o Printed(Head(helperIn), answers)
    /\ UNCHANGED << proc, isReady, pendingCallbacks, callId, cache, cachedBy,
                    helperPartial, timeouts, respawnTimers, resolved,
                    inFlightAtExit, exits, lookup >>
    /\ UNCHANGED << engineVars, inputVars, scrollVars, detectVars, cycles >>

\* A callback that answers without leaving the map.
AnswerKeepsEntry(id) == pendingCallbacks

\* Line 112: the entry of an answered call is deleted.
AnswerDeletes(id) == Drop(pendingCallbacks, id)

\* processOutput for the next line of the helper: WORKER_READY sets isReady;
\* a line with the id of a pending call deletes the entry and runs its
\* callback, which parses the result, caches it and resolves the call.
ProcessOutput ==
    /\ helperOut # << >>
    /\ helperOut' = Tail(helperOut)
    /\ LET line == Head(helperOut)
       IN  IF line = ReadyLine
           THEN /\ isReady' = TRUE
                /\ UNCHANGED << pendingCallbacks, cache, cachedBy, resolved >>
           ELSE /\ UNCHANGED isReady
                /\ IF line.id \in DOMAIN pendingCallbacks
                   THEN /\ pendingCallbacks' = AnswerDeletes(line.id)
                        /\ cache' = Put(cache, pendingCallbacks[line.id].cacheKey,
                                        [value |-> parseResult(line.result),
                                         time |-> now])
                        /\ cachedBy' = Put(cachedBy, pendingCallbacks[line.id].cacheKey,
                                           [kind |-> pendingCallbacks[line.id].kind,
                                            arg |-> pendingCallbacks[line.id].arg])
                        /\ resolved' = Resolve(line.id, parseResult(line.result))
                   ELSE UNCHANGED << pendingCallbacks, cache, cachedBy, resolved >>
    /\ UNCHANGED << proc, callId, helperIn, helperPartial, timeouts, respawnTimers,
                    inFlightAtExit, exits, lookup >>
    /\ UNCHANGED << engineVars, inputVars, scrollVars, detectVars, cycles >>

\* A timeout that resolves whether or not the call is still pending.
TimeoutResolvesAlways(id) == TRUE

\* Lines 156 and 192: the timeout acts only on a call that is still pending.
TimeoutActs(id) == id \in DOMAIN pendingCallbacks

\* A timeout that caches null for the key of its call.
TimeoutCachesNull(id) ==
    /\ id \in DOMAIN timeouts
    /\ now >= timeouts[id]
    /\ timeouts' = Drop(timeouts, id)
    /\ IF TimeoutActs(id)
       THEN /\ pendingCallbacks' = Drop(pendingCallbacks, id)
            /\ resolved' = Resolve(id, None)
            /\ cache' = Put(cache, pendingCallbacks[id].cacheKey,
                            [value |-> None, time |-> now])
       ELSE UNCHANGED << pendingCallbacks, resolved, cache >>
    /\ UNCHANGED << proc, isReady, callId, cachedBy, helperIn, helperPartial,
                    helperOut, respawnTimers, inFlightAtExit, exits, lookup >>
    /\ UNCHANGED << engineVars, inputVars, scrollVars, detectVars, cycles >>

\* The timeout timer of call id fires, CALL_TIMEOUT after the call or later.
Timeout(id) ==
    /\ id \in DOMAIN timeouts
    /\ now >= timeouts[id]
    /\ timeouts' = Drop(timeouts, id)
    /\ IF TimeoutActs(id)
       THEN /\ pendingCallbacks' = Drop(pendingCallbacks, id)
            /\ resolved' = Resolve(id, None)
       ELSE UNCHANGED << pendingCallbacks, resolved >>
    /\ UNCHANGED << proc, isReady, callId, cache, cachedBy, helperIn, helperPartial, helperOut,
                    respawnTimers, inFlightAtExit, exits, lookup >>
    /\ UNCHANGED << engineVars, inputVars, scrollVars, detectVars, cycles >>

\* The helper exits, of itself or after destroy(): the exit handler (lines
\* 77-82) clears isReady and arms the restart timer. The commands it has not
\* executed are lost; what it has printed can still be read.
HelperExit ==
    /\ proc.alive
    /\ proc' = [proc EXCEPT !.alive = FALSE]
    /\ isReady' = FALSE
    /\ respawnTimers' = respawnTimers + 1
    /\ helperIn' = << >>
    /\ helperPartial' = << >>
    /\ inFlightAtExit' = inFlightAtExit \cup DOMAIN pendingCallbacks
    /\ exits' = exits + 1
    /\ UNCHANGED << pendingCallbacks, callId, cache, cachedBy, helperOut, timeouts, resolved,
                    lookup >>
    /\ UNCHANGED << engineVars, inputVars, scrollVars, detectVars, cycles >>

\* WindowDetectorWorker.destroy: the process is killed; its exit follows.
Destroy ==
    /\ proc.alive /\ ~proc.killed
    /\ proc' = [proc EXCEPT !.killed = TRUE]
    /\ UNCHANGED << isReady, pendingCallbacks, callId, cache, cachedBy, helperIn, helperPartial, helperOut,
                    timeouts, respawnTimers, resolved, inFlightAtExit, exits, lookup >>
    /\ UNCHANGED << engineVars, inputVars, scrollVars, detectVars, cycles >>

\* The restart timer fires: init() spawns a new helper, which will report
\* ready.
Respawn ==
    /\ respawnTimers > 0
    /\ respawnTimers' = respawnTimers - 1
    /\ proc' = [alive |-> TRUE, killed |-> FALSE]
    /\ helperIn' = << >>
    /\ helperPartial' = << >>
    /\ helperOut' = Append(helperOut, ReadyLine)
    /\ UNCHANGED << isReady, pendingCallbacks, callId, cache, cachedBy, timeouts, resolved,
                    inFlightAtExit, exits, lookup >>
    /\ UNCHANGED << engineVars, inputVars, scrollVars, detectVars, cycles >>

\* SpecWorker: lookups, answers, timeouts and exits of the helper in every
\* order, under a clock that advances by the length of the call timeout.
NextWorker ==
    \/ Lookup("handle", "5") /\ callId' <= MaxCalls
    \/ \E result \in HelperResults : HelperAnswer(result)
    \/ ProcessOutput
    \/ \E id \in 1..MaxCalls : Timeout(id)
    \/ HelperExit /\ exits' <= MaxRespawns
    \/ Destroy
    \/ Respawn
    \/ Advance(CALL_TIMEOUT, MaxWorkerNow)

SpecWorker == Init /\ [][NextWorker]_vars

\* SpecCache: lookups, answers and timeouts with a helper that stays up,
\* under a clock that advances by half the TTL of the cache.
NextCache ==
    \/ \E l \in Lookups : Lookup(l.kind, l.arg) /\ callId' <= MaxCalls
    \/ \E result \in HelperResults : HelperAnswer(result)
    \/ ProcessOutput
    \/ \E id \in 1..MaxCalls : Timeout(id)
    \/ \E ids \in SUBSET (1..MaxCalls) :
          \E answers \in [ids -> {None} \cup { Some(r) : r \in HelperResults }] :
              HelperGarbled(answers)
    \/ Advance(cacheTTL \div 2, MaxWorkerNow)

SpecCache == Init /\ [][NextCache]_vars

-----------------------------------------------------------------------------
(* StreamEngine.startWindowDetection: the callback of the detection timer *)

\* The callback runs over the clients left from its snapshot of
\* getAllClients() until it reaches an await: clients that are not in a
\* streaming mode or not active are skipped (lines 71-72), an apps client
\* without a window source has detectedWindow cleared (line 95), every other
\* client has a lookup awaited (after getEffectiveConfig for a chat or
\* terminal client). A client that has disconnected is passed over. The
\* result: the clients left, the first being the one whose lookup is
\* awaited, the states, and the clients whose config was read.
RECURSIVE RunToAwait(_, _, _)
RunToAwait(left, states, read) ==
    IF left = << >> THEN [left |-> left, states |-> states, read |-> read]
    ELSE LET c == Head(left)
         IN  IF c \notin DOMAIN states \/ ~Eligible(states[c])
             THEN RunToAwait(Tail(left), states, read)
             ELSE IF states[c].viewMode = "apps"
                  THEN IF states[c].streamSource = "window"
                       THEN [left |-> left, states |-> states, read |-> read]
                       ELSE RunToAwait(Tail(left),
                                [states EXCEPT ![c].detectedWindow = None], read)
                  ELSE [left |-> left, states |-> states, read |-> read \cup {c}]

\* The detection timer fires (line 65): a run of the callback starts and
\* goes on to its first await, that of the global fallback (line 114) when
\* no client has a lookup. Nothing makes it wait for a run that is suspended.
DetectionFire ==
    /\ detectionInterval = "live"
    /\ Len(cycles) < MaxCycles
    /\ LET run == RunToAwait(clientOrder, clientStates, {})
       IN  /\ cycles' = Append(cycles, run.left)
           /\ clientStates' = run.states
           /\ clientConfigs' = getClientConfig(clientConfigs, run.read)
    /\ ev' = NoEvent
    /\ UNCHANGED << clientOrder, gone, detectionMode, isStreaming, streamInterval,
                    detectionInterval, isCapturing, running, now, observed,
                    globalFps, intervalMs, saving >>
    /\ UNCHANGED << inputVars, scrollVars, workerVars, detectVars >>

\* The lookup the k-th suspended run awaits returns found: the bounds are
\* stored for the client (lines 89-91, 107-109) and the run goes on to its
\* next await; a run whose global lookup returns ends.
DetectionResume(k, found) ==
    /\ k \in 1..Len(cycles)
    /\ LET left == cycles[k]
           c == Head(left)
           stored == IF left # << >> /\ c \in Connected /\ found # None
                     THEN [clientStates EXCEPT ![c].detectedWindow = found]
                     ELSE clientStates
           run == RunToAwait(Tail(left), stored, {})
       IN  IF left = << >>
           THEN /\ cycles' = [i \in 1..(Len(cycles) - 1) |->
                                IF i < k THEN cycles[i] ELSE cycles[i + 1]]
                /\ UNCHANGED << clientStates, clientConfigs >>
           ELSE /\ cycles' = [cycles EXCEPT ![k] = run.left]
                /\ clientStates' = run.states
                /\ clientConfigs' = getClientConfig(clientConfigs, run.read)
    /\ ev' = NoEvent
    /\ UNCHANGED << clientOrder, gone, detectionMode, isStreaming, streamInterval,
                    detectionInterval, isCapturing, running, now, observed,
                    globalFps, intervalMs, saving >>
    /\ UNCHANGED << inputVars, scrollVars, workerVars, detectVars >>

\* SpecDetect: two clients change mode while the detection timer fires and
\* lookups return.
NextDetect ==
    \/ \E c \in Clients :
          \/ Connect(c)
          \/ \E mode \in {"chat", "apps", "idle"} : SetMode(c, mode)
    \/ DetectionFire
    \/ \E k \in 1..MaxCycles, found \in {None} \cup Found : DetectionResume(k, found)

SpecDetect == Init /\ [][NextDetect]_vars

-----------------------------------------------------------------------------
(* findTerminalPane *)

\* The elements of a set of numbers as a sequence in descending order
\* (Array.sort((a, b) => b.y - a.y)).
RECURSIVE SortDesc(_)
SortDesc(S) ==
    IF S = {} THEN << >>
    ELSE << Max(S) >> \o SortDesc(S \ {Max(S)})

MAX_GAP == 100
MIN_TERMINAL_HEIGHT == 120

\* The loop of lines 363-376 from index i on: the separator moves up while
\* the lines are closer than MAX_GAP, and across a larger gap only while the
\* panel found so far is not higher than 80.
RECURSIVE TopSeparator(_, _, _)
TopSeparator(candidates, i, top) ==
    IF i > Len(candidates) THEN top
    ELSE IF Abs(candidates[i] - candidates[i - 1]) < MAX_GAP
         THEN TopSeparator(candidates, i + 1, candidates[i])
         ELSE IF candidates[1] - candidates[i - 1] > 80
              THEN top
              ELSE TopSeparator(candidates, i + 1, candidates[i])

\* A lowest edge taken for the bottom of the status bar up to 60 rows above
\* the bottom of the image.
VeryLowWithin60(height, y) == height - y < 60

\* Line 394: the lowest edge is very low, it may be the bottom of the status
\* bar.
VeryLow(height, y) == height - y < 25

\* Lines 388-401: the bottom separator.
BottomSeparator(height, bottomCandidates) ==
    IF Len(bottomCandidates) > 0
    THEN IF /\ Len(bottomCandidates) > 1
            /\ VeryLow(height, bottomCandidates[1])
            /\ Abs(bottomCandidates[2] - bottomCandidates[1]) < 45
         THEN bottomCandidates[2]
         ELSE bottomCandidates[1]
    ELSE height - 25

\* findTerminalPane for an image of the given size whose horizontal edges
\* (findHorizontalEdges) lie at the rows ys and which has no vertical edge
\* in the slice, so that the pane spans the width.
findTerminalPane(width, height, ys) ==
    LET candidates == SortDesc({ y \in ys : 10 * y > 3 * height /\ y < height - 40 })
        top == TopSeparator(candidates, 2, candidates[1])
        bottom == BottomSeparator(height,
                      SortDesc({ y \in ys : y > top + 100 /\ y < height - 5 }))
    IN  IF ys = {} \/ candidates = << >> THEN None
        ELSE IF bottom - top < MIN_TERMINAL_HEIGHT THEN None
        ELSE Some([x |-> 0, y |-> top, width |-> width, height |-> bottom - top])

\* The rows at which the snapshots of the model have horizontal edges, five
\* rows or more apart as findHorizontalEdges leaves them.
EdgeRows == { 300, 600, 700, 750, 820, 850, 880 }

SnapshotHeights == { 870, 900 }

\* A snapshot is taken: 1200 wide, with up to MaxEdges horizontal edges.
TakeSnapshot(height, ys) ==
    /\ snapshot = None
    /\ Cardinality(ys) <= MaxEdges
    /\ snapshot' = Some([width |-> 1200, height |-> height, edges |-> ys])
    /\ UNCHANGED << terminalPane, buffer, verticalEdges >>
    /\ UNCHANGED << engineVars, inputVars, scrollVars, workerVars, cycles >>

\* findTerminalPane runs on the snapshot.
FindTerminalPane ==
    /\ snapshot # None
    /\ ~terminalPane.ran
    /\ terminalPane' = [ran |-> TRUE,
                        found |-> findTerminalPane(Get(snapshot).width,
                                                   Get(snapshot).height,
                                                   Get(snapshot).edges)]
    /\ UNCHANGED << snapshot, buffer, verticalEdges >>
    /\ UNCHANGED << engineVars, inputVars, scrollVars, workerVars, cycles >>

NextTerminal ==
    \/ \E height \in SnapshotHeights, ys \in SUBSET EdgeRows : TakeSnapshot(height, ys)
    \/ FindTerminalPane

SpecTerminal == Init /\ [][NextTerminal]_vars

-----------------------------------------------------------------------------
(* findVerticalEdges *)

\* The colours of the two regions of a buffer, as intToRGBA gives them.
Dark == [r |-> 30, g |-> 30, b |-> 30]
Light == [r |-> 220, g |-> 220, b |-> 220]

colorDiff(c1, c2) == Abs(c1.r - c2.r) + Abs(c1.g - c2.g) + Abs(c1.b - c2.b)

\* image.getPixelColor(x, y) of a buffer that is Dark left of column
\* boundary and Light from it on, in every row.
getPixelColor(image, x, y) == IF x < image.boundary THEN Dark ELSE Light

\* The defaults of the options of findVerticalEdges (lines 82-88), with
\* minEdgeScore in percent, outside low-resource mode.
DefaultOptions ==
    [minEdgeScore |-> 60, edgeThreshold |-> 25, sampleStep |-> 5,
     marginX |-> 30, marginY |-> 30, fullWidth |-> FALSE]

\* A scan that ends at the middle of the buffer.
ScanEndsAtHalf(width, options, x) ==
    IF options.fullWidth THEN x > options.marginX ELSE 2 * x > width

\* Lines 95-101 and 108: x > endX, where endX is width * 0.3, or marginX
\* with fullWidth.
AboveEndX(width, options, x) ==
    IF options.fullWidth THEN x > options.marginX ELSE 10 * x > 3 * width

\* The columns the loop of line 108 visits.
ScannedColumns(image, options) ==
    { x \in 0..(image.width - options.marginX) : AboveEndX(image.width, options, x) }

\* The rows the loop of line 112 samples.
SampledRows(image, options) ==
    { y \in options.marginY..(image.height - options.marginY - 1) :
        (y - options.marginY) % options.sampleStep = 0 }

\* Lines 109-126: the samples of column x that show an edge.
EdgeCount(image, options, x) ==
    LET leftX == IF x - 3 > 0 THEN x - 3 ELSE 0
        rightX == IF x + 3 < image.width - 1 THEN x + 3 ELSE image.width - 1
    IN  Cardinality({ y \in SampledRows(image, options) :
            colorDiff(getPixelColor(image, leftX, y), getPixelColor(image, rightX, y))
                > options.edgeThreshold })

\* Lines 108-133: the edges pushed, from right to left; the score of an edge
\* is count / total.
RECURSIVE ScanFrom(_, _, _)
ScanFrom(image, options, columns) ==
    IF columns = {} THEN << >>
    ELSE LET x == Max(columns)
             total == Cardinality(SampledRows(image, options))
             count == EdgeCount(image, options, x)
             rest == ScanFrom(image, options, columns \ {x})
         IN  IF total > 0 /\ 100 * count >= options.minEdgeScore * total
             THEN << [x |-> x, count |-> count, total |-> total] >> \o rest
             ELSE rest

\* filtered.find(e => Math.abs(e.x - edge.x) < 5): the index of the first
\* such entry, 0 when there is none.
FindNear(filtered, edge) ==
    IF \E i \in 1..Len(filtered) : Abs(filtered[i].x - edge.x) < 5
    THEN CHOOSE i \in 1..Len(filtered) :
            /\ Abs(filtered[i].x - edge.x) < 5
            /\ \A j \in 1..(i - 1) : Abs(filtered[j].x - edge.x) >= 5
    ELSE 0

\* Lines 136-145: an edge within 5 columns of one already kept replaces it
\* only with a higher score.
RECURSIVE FilterDuplicates(_, _, _)
FilterDuplicates(edges, i, filtered) ==
    IF i > Len(edges) THEN filtered
    ELSE LET edge == edges[i]
             k == FindNear(filtered, edge)
         IN  IF k = 0
             THEN FilterDuplicates(edges, i + 1, Append(filtered, edge))
             ELSE IF edge.count * filtered[k].total > filtered[k].count * edge.total
                  THEN FilterDuplicates(edges, i + 1, [filtered EXCEPT ![k] = edge])
                  ELSE FilterDuplicates(edges, i + 1, filtered)

\* Line 147: filtered.sort((a, b) => b.x - a.x).
RECURSIVE SortByX(_)
SortByX(edges) ==
    IF edges = << >> THEN << >>
    ELSE LET i == CHOOSE i \in 1..Len(edges) :
                      \A j \in 1..Len(edges) :
                          edges[j].x < edges[i].x \/ (edges[j].x = edges[i].x /\ i <= j)
         IN  << edges[i] >> \o
             SortByX([j \in 1..(Len(edges) - 1) |-> IF j < i THEN edges[j] ELSE edges[j + 1]])

findVerticalEdges(image, options) ==
    SortByX(FilterDuplicates(ScanFrom(image, options, ScannedColumns(image, options)),
                             1, << >>))

BufferWidths == { 80, MaxWidth }
BufferHeights == { 50, 100 }

\* A buffer is made: uniform but for one boundary at a column between its
\* left and right edges.
MakeBuffer(width, height, boundary) ==
    /\ buffer = None
    /\ boundary \in 1..(width - 1)
    /\ buffer' = Some([width |-> width, height |-> height, boundary |-> boundary])
    /\ UNCHANGED << snapshot, terminalPane, verticalEdges >>
    /\ UNCHANGED << engineVars, inputVars, scrollVars, workerVars, cycles >>

\* findVerticalEdges runs on the buffer, with the default options or with
\* fullWidth.
FindVerticalEdges(fullWidth) ==
    /\ buffer # None
    /\ ~verticalEdges.ran
    /\ verticalEdges' =
          [ran |-> TRUE, fullWidth |-> fullWidth,
           found |-> findVerticalEdges(Get(buffer),
                        [DefaultOptions EXCEPT !.fullWidth = fullWidth])]
    /\ UNCHANGED << snapshot, terminalPane, buffer >>
    /\ UNCHANGED << engineVars, inputVars, scrollVars, workerVars, cycles >>

NextEdges ==
    \/ \E width \in BufferWidths, height \in BufferHeights, boundary \in 1..MaxWidth :
          MakeBuffer(width, height, boundary)
    \/ \E fullWidth \in BOOLEAN : FindVerticalEdges(fullWidth)

SpecEdges == Init /\ [][NextEdges]_vars

-----------------------------------------------------------------------------
(* findTerminalPane: the vertical separators of the slice *)

\* The comparator of lines 448-456 and 463-471 is negative: a goes before b.
\* With scores within 0.10 of each other the larger x goes first, otherwise
\* the higher score (count / total).
SeparatorBefore(a, b) ==
    IF 10 * Abs(a.count * b.total - b.count * a.total) < a.total * b.total
    THEN a.x > b.x
    ELSE a.count * b.total > b.count * a.total

\* sorted with edge e put in, in front of the entries it goes before.
RECURSIVE InsertSeparator(_, _)
InsertSeparator(sorted, e) ==
    IF sorted # << >> /\ SeparatorBefore(e, sorted[Len(sorted)])
    THEN Append(InsertSeparator(SubSeq(sorted, 1, Len(sorted) - 1), e),
                sorted[Len(sorted)])
    ELSE Append(sorted, e)

\* candidates.sort(comparator), as the insertion sort it is for short arrays.
RECURSIVE SortSeparators(_)
SortSeparators(candidates) ==
    IF candidates = << >> THEN << >>
    ELSE InsertSeparator(SortSeparators(SubSeq(candidates, 1, Len(candidates) - 1)),
                         candidates[Len(candidates)])

\* Lines 436-493: the pane found between the horizontal separators is cut at
\* the best vertical edge of the right band (40%-98% of the width) and at the
\* best one of the left band (2%-60%).
ExcludeSidebars(pane, width, edges) ==
    LET rightCandidates ==
            SortSeparators(SelectSeq(edges,
                LAMBDA e : 100 * e.x < 98 * width /\ 10 * e.x > 4 * width))
        leftCandidates ==
            SortSeparators(SelectSeq(edges,
                LAMBDA e : 100 * e.x > 2 * width /\ 10 * e.x < 6 * width))
        finalRightX == IF rightCandidates # << >> THEN rightCandidates[1].x ELSE width
        finalLeftX == IF leftCandidates # << >> THEN leftCandidates[1].x ELSE 0
    IN  [x |-> finalLeftX, y |-> pane.y,
         width |-> finalRightX - finalLeftX, height |-> pane.height]

\* The vertical edges findVerticalEdges can report for the slice of a 1200
\* wide snapshot: none, one or two edges, at a column of the left band only,
\* of both bands, or of the right band only, sorted by x descending.
SliceColumns == { 300, 600, 900 }

SliceEdge == [x : SliceColumns, count : {5, 9}, total : {10}]

SliceEdges ==
    { << >> } \cup { << e >> : e \in SliceEdge }
              \cup { p \in SliceEdge \X SliceEdge : p[1].x > p[2].x }

\* findTerminalPane runs on the snapshot; edges is what findVerticalEdges
\* returned for the slice between the separators.
FindTerminalPaneSlice(edges) ==
    /\ snapshot # None
    /\ ~terminalPane.ran
    /\ LET pane == findTerminalPane(Get(snapshot).width, Get(snapshot).height,
                                    Get(snapshot).edges)
       IN  terminalPane' =
              [ran |-> TRUE,
               found |-> IF pane = None THEN None
                         ELSE Some(ExcludeSidebars(Get(pane), Get(snapshot).width, edges))]
    /\ verticalEdges' = [ran |-> TRUE, fullWidth |-> TRUE, found |-> edges]
    /\ UNCHANGED << snapshot, buffer >>
    /\ UNCHANGED << engineVars, inputVars, scrollVars, workerVars, cycles >>

NextSlice ==
    \/ \E height \in SnapshotHeights, ys \in SUBSET EdgeRows : TakeSnapshot(height, ys)
    \/ \E edges \in SliceEdges : FindTerminalPaneSlice(edges)

SpecSlice == Init /\ [][NextSlice]_vars

-----------------------------------------------------------------------------
(* Handlers of index.js whose parameter is destructured: term:input,
   term:resize, term:kill, apps:activate, apps:setSource *)

\* What every such handler leaves alone.
HandlerFrame ==
    /\ UNCHANGED << clientOrder, gone, detectionMode, isStreaming, detectionInterval,
                    isCapturing, running, now, observed, ev, globalFps, saving >>
    /\ UNCHANGED << cropConfig, lastCaptureArea, shown, clicking, pointer,
                    mouseClicks, scrollAccumulatorY, scrollSum, scrollVars,
                    workerVars, detectVars, cycles >>

\* A handler ({ ... }) => { updateActivity; call } that receives a payload
\* (given) or none: destructuring undefined throws a TypeError before the
\* body runs, and nothing catches it.
Destructuring(c, given, call) ==
    /\ c \in Connected
    /\ IF given
       THEN /\ clientStates' = [clientStates EXCEPT ![c] = updateActivity(@, now)]
            /\ delegated' = delegated \cup {call}
            /\ UNCHANGED uncaught
       ELSE /\ uncaught' = TRUE
            /\ UNCHANGED << clientStates, delegated >>
    /\ UNCHANGED << streamInterval, clientConfigs, intervalMs >>
    /\ HandlerFrame

\* socket.on('term:input').
TermInput(c, given) == Destructuring(c, given, "terminalManager.write")

\* socket.on('term:resize').
TermResize(c, given) == Destructuring(c, given, "terminalManager.resize")

\* socket.on('term:kill').
TermKill(c, given) == Destructuring(c, given, "terminalManager.kill")

\* socket.on('apps:activate') with a handle: an async handler, whose
\* TypeError becomes a rejection nobody handles.
AppsActivate(c, given) == Destructuring(c, given, "ensureWindowActiveByHandle")

\* socket.on('apps:setSource') for a window source: the stream source is
\* replaced and updateInterval() called.
AppsSetSource(c, given) ==
    /\ c \in Connected
    /\ IF given
       THEN /\ clientStates' = [clientStates EXCEPT ![c] =
                  [updateActivity(@, now) EXCEPT !.streamSource = "window"]]
            /\ streamInterval' = updateInterval
            /\ clientConfigs' = getClientConfig(clientConfigs, Connected)
            /\ intervalMs' = updatedIntervalMs(Connected)
            /\ UNCHANGED uncaught
       ELSE /\ uncaught' = TRUE
            /\ UNCHANGED << clientStates, streamInterval, clientConfigs, intervalMs >>
    /\ UNCHANGED delegated
    /\ HandlerFrame

\* The malformed click and scroll payloads, with one well-formed payload of
\* each kind of scroll and of click.
ShapedClicks ==
    { pos \in ClickPayloads : ~WellFormedClick(pos) \/ pos.x = Some(10) }

ShapedScrolls ==
    { data \in ScrollPayloads :
        ~WellFormedScroll(data) \/ data.deltaY \in {Some(10), Some(15)} }

\* SpecPayload: every input event of one client, with and without a
\* well-formed payload.
NextPayload ==
    \/ Connect("c1")
    \/ FrameSent("c1", ScrollArea)
    \/ \E pos \in ShapedClicks : InputClick("c1", pos)
    \/ \E ok \in BOOLEAN : ClickResume(1, ok, << 1, 1 >>)
    \/ \E data \in ShapedScrolls : InputScroll("c1", data, 10)
    \/ \E ok \in BOOLEAN : ScrollResume(1, ok, << 1, 1 >>)
    \/ ScrollExecute
    \/ \E given \in BOOLEAN :
          \/ TermInput("c1", given)
          \/ TermResize("c1", given)
          \/ TermKill("c1", given)
          \/ AppsActivate("c1", given)
          \/ AppsSetSource("c1", given)

SpecPayload == Init /\ [][NextPayload]_vars

\* SpecTimers: the timers of the engine under connections, disconnections,
\* view switches, stream source changes and fps updates of two clients.
NextTimers ==
    \/ \E c \in Clients :
          \/ Connect(c)
          \/ Disconnect(c)
          \/ \E mode \in ViewModes : SetMode(c, mode)
          \/ AppsSetSource(c, TRUE)
          \/ \E newConfig \in FpsPayloads : ConfigUpdate(c, newConfig)
    \/ SaveDone

SpecTimers == Init /\ [][NextTimers]_vars

-----------------------------------------------------------------------------
(* Properties *)

\* The committed position of the client's current view mode: chat is cropped at
\* stablePaneX, terminal at stablePaneY.
StablePos(st) == IF st.viewMode = "terminal" THEN st.stablePaneY ELSE st.stablePaneX

\* The client's pane of the current view mode is committed and calibration is over.
Locked(st) ==
    /\ st.viewMode \in PaneModes
    /\ ~st.calibrationMode
    /\ StablePos(st) # Unset

\* The last step invoked the Pane Locator for client c.
LocatorCalled(c) == ev.op = "capture" /\ ev.c = c /\ ev.located

\* C1: for a client in fixed detection mode whose pane of the current view mode
\* is committed and locked, no step of a capture tick invokes the Pane Locator;
\* a calibration:reset or calibration:resetFixed ends the locked state.
C1_LockedNoLocatorCall ==
    [][\A c \in Connected :
          (detectionMode = "fixed" /\ Locked(clientStates[c])) => ~LocatorCalled(c)']_vars

\* C1 witness: a locked client in fixed mode has been processed by a tick on
\* the frame where the every-10th-frame cadence would run detection, and the
\* Pane Locator was not invoked.
C1_Witness ==
    /\ "c1" \in Connected
    /\ detectionMode = "fixed"
    /\ Locked(clientStates["c1"])
    /\ clientStates["c1"].detectedWindow # None
    /\ clientStates["c1"].frameCount = 10
    /\ ev.op = "capture" /\ ev.c = "c1" /\ ~ev.located

\* C2: at most one execution of captureAndEmit is in flight, and a timer fire
\* while one is in flight starts no execution (no snapshot) and emits no frame.
C2_OneCaptureInFlight ==
    [][/\ Len(running') <= 1
       /\ (Len(running) >= 1 /\ TimerFire(MaxFrames))
            => (running' = running /\ ev'.op = "skip" /\ ev'.frames = {})]_vars

\* C2 witness: the timer has fired while an execution was suspended in the
\* encode of a client, and returned at the guard.
C2_Witness ==
    /\ ev.op = "skip"
    /\ Len(running) = 1
    /\ running[1].i > 0

\* C3: when a tick ends by a failure in the processing of one client, every
\* client after it in the tick's list that still has a socket has received its
\* frame in that tick.
C3_FailureDoesNotAbortTick ==
    ev.ended # None =>
       LET e == Get(ev.ended)
       IN  e.failedAt > 0 =>
              \A j \in (e.failedAt + 1)..Len(e.list) :
                 e.list[j] \in Connected => e.list[j] \in e.served

\* Two positions less than 5px apart (terminal: in X and in Y).
Near(mode, p, q) ==
    IF mode = "terminal" THEN Abs(p.x - q.x) < 5 /\ Abs(p.y - q.y) < 5
    ELSE Abs(p.x - q.x) < 5

\* The stable position of the view mode is committed at pane p's position.
CommittedAt(st, p) ==
    IF st.viewMode = "terminal"
    THEN st.stablePaneY = p.y /\ st.stablePaneX = p.x
    ELSE st.stablePaneX = p.x

\* C4 as stated: from a client that has just entered calibration, after three
\* consecutive Pane Locator results agreeing within 5px the stable position of
\* the current view mode is committed.
C4_ThreeResultsCommit ==
    \A c \in Connected :
       LET h == observed[c]
           st == clientStates[c]
       IN  (/\ h.whole /\ Len(h.series) = 3
            /\ \A i, j \in 1..3 : Near(st.viewMode, h.series[i], h.series[j]))
           => StablePos(st) # Unset

\* C4 amended: from a state with no position recorded (stable* and last* unset,
\* stabilityCount 0), after four consecutive Pane Locator results of which the
\* second to fourth are each less than 5px from the first, the stable
\* position of the current view mode is committed at the first result.
C4_FourResultsCommit ==
    \A c \in Connected :
       LET h == observed[c]
           st == clientStates[c]
       IN  (/\ h.whole /\ Len(h.series) = 4
            /\ \A i \in 2..4 : Near(st.viewMode, h.series[i], h.series[1]))
           => CommittedAt(st, h.series[1])

\* C4 witness: a terminal client has committed after four agreeing results.
C4_Witness ==
    /\ "c1" \in Connected
    /\ clientStates["c1"].viewMode = "terminal"
    /\ observed["c1"].whole /\ Len(observed["c1"].series) = 4
    /\ \A i \in 2..4 : Near("terminal", observed["c1"].series[i], observed["c1"].series[1])
    /\ clientStates["c1"].stablePaneY = 600
    /\ ev.op = "capture" /\ ev.located /\ ev.pane # None

\* The x positions of a series of panes.
Xs(series) == [i \in 1..Len(series) |-> series[i].x]

\* C5 as stated: in chat mode from a fresh state, after results x = 620, 622,
\* 619 stablePaneX is 619.
C5_CommitsLastOfThree ==
    \A c \in Connected :
       (/\ clientStates[c].viewMode = "chat"
        /\ observed[c].whole
        /\ Xs(observed[c].series) = << 620, 622, 619 >>)
       => clientStates[c].stablePaneX = 619

\* C5 amended: in chat mode from a fresh state, after results x = 620, 622, 619
\* stablePaneX is still unset (620 is the recorded position, stabilityCount is
\* 2); a fourth result less than 5px from 620 commits stablePaneX = 620, the
\* first value of the run.
C5_CommitsFirstOfFour ==
    \A c \in Connected :
       LET h == observed[c]
           st == clientStates[c]
       IN  (st.viewMode = "chat" /\ h.whole) =>
              /\ Xs(h.series) = << 620, 622, 619 >> =>
                    /\ st.stablePaneX = Unset
                    /\ st.lastPaneX = 620
                    /\ st.stabilityCount = 2
              /\ (/\ Len(h.series) = 4
                  /\ SubSeq(Xs(h.series), 1, 3) = << 620, 622, 619 >>
                  /\ Abs(h.series[4].x - 620) < 5)
                 => st.stablePaneX = 620

\* C5 witness: the fourth result 622 has committed 620.
C5_Witness ==
    /\ "c1" \in Connected
    /\ clientStates["c1"].viewMode = "chat"
    /\ observed["c1"].whole
    /\ Xs(observed["c1"].series) = << 620, 622, 619, 622 >>
    /\ clientStates["c1"].stablePaneX = 620

\* The fixed zone a client stores for a view mode.
ZoneOf(st, mode) == IF mode = "terminal" THEN st.fixedTerminalZone ELSE st.fixedChatZone

\* stable* of the client equals the stored zone of its view mode.
OnStoredZone(st) ==
    /\ st.viewMode \in PaneModes
    /\ ZoneOf(st, st.viewMode) # None
    /\ LET z == Get(ZoneOf(st, st.viewMode))
       IN  IF st.viewMode = "terminal"
           THEN /\ st.stablePaneX = z.stablePaneX /\ st.stablePaneY = z.stablePaneY
                /\ st.stablePaneW = z.stablePaneW /\ st.stablePaneH = z.stablePaneH
           ELSE st.stablePaneX = z.stablePaneX

\* The step is a detection step of client c in which the Pane Locator
\* returned a pane.
DetectionStep(c) ==
    /\ c \in Connected /\ c \in Connected'
    /\ ev'.op = "capture" /\ ev'.c = c /\ ev'.located /\ ev'.pane # None

\* The step is a view:setMode of client c that switches to chat or terminal
\* from a different mode.
SwitchStep(c) ==
    /\ c \in Connected /\ c \in Connected'
    /\ clientStates'[c].viewMode \in PaneModes
    /\ clientStates'[c].viewMode # clientStates[c].viewMode

\* The switch of SwitchStep(c) finds a stored zone of the target mode in fixed mode.
SwitchFindsZone(c) ==
    detectionMode = "fixed" /\ ZoneOf(clientStates[c], clientStates'[c].viewMode) # None

\* C6: stablePaneX or stablePaneY takes a new committed value only in a
\* detection step that ends with stabilityCount >= 3 or in a mode switch that
\* restores a stored fixed zone; and stabilityCount grows only by one, in a
\* detection step whose result is less than 5px from the recorded position, or
\* is set to 3 by such a restore: no commit comes from fewer than three
\* consecutive agreeing observations.
C6_CommitOnlyAtQuorum ==
    [][\A c \in Connected \cap Connected' :
          LET st == clientStates[c]
              st2 == clientStates'[c]
              restore == SwitchStep(c) /\ SwitchFindsZone(c) /\ OnStoredZone(st2)
          IN  /\ (\/ st2.stablePaneX \notin {Unset, st.stablePaneX}
                   \/ st2.stablePaneY \notin {Unset, st.stablePaneY})
                  => \/ DetectionStep(c) /\ st2.stabilityCount >= 3
                     \/ restore
              /\ st2.stabilityCount > st.stabilityCount
                  => \/ /\ DetectionStep(c)
                        /\ st2.stabilityCount = st.stabilityCount + 1
                        /\ Near(st.viewMode, Get(ev'.pane),
                                [x |-> st.lastPaneX, y |-> st.lastPaneY])
                     \/ restore /\ st2.stabilityCount = 3]_vars

\* C6 witness: a detection step has ended with stabilityCount 3 and committed
\* the recorded chat position 619 on the result 622.
C6_Witness ==
    /\ "c1" \in Connected
    /\ clientStates["c1"].viewMode = "chat"
    /\ ev.op = "capture" /\ ev.c = "c1" /\ ev.located
    /\ ev.pane # None /\ Get(ev.pane).x = 622
    /\ clientStates["c1"].stabilityCount = 3
    /\ clientStates["c1"].stablePaneX = 619

\* C7: a Pane Locator result more than 5px from the recorded position (in
\* terminal mode in X or in Y) sets stabilityCount to 0 and records the result's
\* position; stablePaneX, stablePaneY, stablePaneW, stablePaneH keep their values.
C7_OutlierResetsCount ==
    [][\A c \in Clients :
          DetectionStep(c) =>
             LET st == clientStates[c]
                 st2 == clientStates'[c]
                 p == Get(ev'.pane)
                 far == IF st.viewMode = "terminal"
                        THEN Abs(p.x - st.lastPaneX) > 5 \/ Abs(p.y - st.lastPaneY) > 5
                        ELSE Abs(p.x - st.lastPaneX) > 5
             IN  far =>
                    /\ st2.stabilityCount = 0
                    /\ st2.lastPaneX = p.x
                    /\ st.viewMode = "terminal" => st2.lastPaneY = p.y
                    /\ st2.stablePaneX = st.stablePaneX
                    /\ st2.stablePaneY = st.stablePaneY
                    /\ st2.stablePaneW = st.stablePaneW
                    /\ st2.stablePaneH = st.stablePaneH]_vars

\* C7 witness: a chat client committed at 619 has received the outlier 625.
C7_Witness ==
    /\ "c1" \in Connected
    /\ clientStates["c1"].viewMode = "chat"
    /\ ev.op = "capture" /\ ev.c = "c1" /\ ev.located
    /\ ev.pane # None /\ Get(ev.pane).x = 625
    /\ clientStates["c1"].stablePaneX = 619
    /\ clientStates["c1"].lastPaneX = 625
    /\ clientStates["c1"].stabilityCount = 0

\* C8: in fixed detection mode the detection step that commits (it ends with
\* stabilityCount >= 3) writes the fixed zone of the current view mode with the
\* committed values (chat: X; terminal: X, Y, W, H) and clears the calibrating
\* flag; the fixed zone of the other view mode keeps its value.
C8_CommitWritesZone ==
    [][\A c \in Clients :
          (DetectionStep(c) /\ detectionMode = "fixed"
             /\ clientStates'[c].stabilityCount >= 3) =>
             LET st == clientStates[c]
                 st2 == clientStates'[c]
             IN  /\ StablePos(st2) # Unset
                 /\ ~st2.calibrationMode
                 /\ IF st.viewMode = "terminal"
                    THEN /\ st2.fixedTerminalZone =
                               Some([stablePaneX |-> st2.stablePaneX,
                                     stablePaneY |-> st2.stablePaneY,
                                     stablePaneW |-> st2.stablePaneW,
                                     stablePaneH |-> st2.stablePaneH])
                         /\ st2.fixedChatZone = st.fixedChatZone
                    ELSE /\ st2.fixedChatZone = Some([stablePaneX |-> st2.stablePaneX])
                         /\ st2.fixedTerminalZone = st.fixedTerminalZone]_vars

\* C8 witness: a terminal commit in fixed mode has stored its zone while a
\* chat zone was stored.
C8_Witness ==
    /\ "c1" \in Connected
    /\ detectionMode = "fixed"
    /\ clientStates["c1"].viewMode = "terminal"
    /\ ev.op = "capture" /\ ev.c = "c1" /\ ev.located /\ ev.pane # None
    /\ clientStates["c1"].stabilityCount = 3
    /\ clientStates["c1"].fixedTerminalZone =
          Some([stablePaneX |-> 0, stablePaneY |-> 600,
                stablePaneW |-> 900, stablePaneH |-> 172])
    /\ clientStates["c1"].fixedChatZone = Some([stablePaneX |-> 620])

\* C9: a view:setMode that switches a client in fixed mode to chat or terminal
\* from a different mode, with a zone stored for the target mode, leaves
\* stable* equal to the stored zone and calibrating false; and as long as the
\* client is in that state in fixed mode no step of a tick invokes the Pane
\* Locator for it.
C9_SwitchRestoresZone ==
    [][\A c \in Connected :
          /\ (SwitchStep(c) /\ SwitchFindsZone(c)) =>
                /\ OnStoredZone(clientStates'[c])
                /\ ~clientStates'[c].calibrationMode
                /\ ZoneOf(clientStates'[c], clientStates'[c].viewMode)
                      = ZoneOf(clientStates[c], clientStates'[c].viewMode)
          /\ (/\ detectionMode = "fixed"
              /\ OnStoredZone(clientStates[c])
              /\ ~clientStates[c].calibrationMode) => ~LocatorCalled(c)']_vars

\* C9 witness: a client switched from terminal back to chat with a stored chat
\* zone (stablePaneY still holds the terminal position) has been processed by a
\* tick without a Pane Locator call.
C9_Witness ==
    /\ "c1" \in Connected
    /\ detectionMode = "fixed"
    /\ clientStates["c1"].viewMode = "chat"
    /\ OnStoredZone(clientStates["c1"])
    /\ ~clientStates["c1"].calibrationMode
    /\ clientStates["c1"].stablePaneY # Unset
    /\ clientStates["c1"].detectedWindow # None
    /\ ev.op = "capture" /\ ev.c = "c1" /\ ~ev.located

\* C10: a view:setMode that switches a client to chat or terminal from a
\* different mode, in dynamic mode or without a stored zone of the target
\* mode, leaves calibrating true, the calibration start time unset,
\* stabilityCount 0 and stablePaneX, stablePaneY, stablePaneW, stablePaneH all unset.
C10_SwitchClearsStable ==
    [][\A c \in Connected :
          (SwitchStep(c) /\ ~SwitchFindsZone(c)) =>
             LET st2 == clientStates'[c]
             IN  /\ st2.calibrationMode
                 /\ st2.calibrationStartTime = 0
                 /\ st2.stabilityCount = 0
                 /\ st2.stablePaneX = Unset
                 /\ st2.stablePaneY = Unset
                 /\ st2.stablePaneW = Unset
                 /\ st2.stablePaneH = Unset]_vars

\* C11: after a calibration:reset of a client in dynamic detection mode the
\* stable position of its current view mode is unset, calibrating is true and
\* the calibration start time is unset.
C11_ResetClearsStable ==
    [][\A c \in Clients :
          (CalibrationReset(c) /\ detectionMode = "dynamic") =>
             /\ StablePos(clientStates'[c]) = Unset
             /\ clientStates'[c].calibrationMode
             /\ clientStates'[c].calibrationStartTime = 0]_vars

\* C12: after a calibration:resetFixed both fixed zones are none, stable* is
\* cleared, calibrating is true, the calibration start time is unset, and the
\* stability count of before the reset is not kept.
C12_ResetFixedClearsAll ==
    [][\A c \in Clients :
          CalibrationResetFixed(c) =>
             LET st2 == clientStates'[c]
             IN  /\ st2.fixedChatZone = None
                 /\ st2.fixedTerminalZone = None
                 /\ st2.stablePaneX = Unset
                 /\ st2.stablePaneY = Unset
                 /\ st2.calibrationMode
                 /\ st2.calibrationStartTime = 0
                 /\ st2.stabilityCount = 0]_vars

\* C13: a tick that processes an active chat or terminal client at least
\* 5000 ms after the first frame of its calibration leaves calibrating false,
\* whatever the Pane Locator returns.
C13_CalibrationEnds ==
    [][\A c \in Connected :
          LET st == clientStates[c]
          IN  (/\ ev'.op = "capture" /\ ev'.c = c
               /\ st.isActive /\ st.viewMode \in PaneModes
               /\ st.calibrationStartTime # 0
               /\ now - st.calibrationStartTime >= CALIBRATION_DURATION)
              => ~clientStates'[c].calibrationMode]_vars

\* The step runs performPaneDetection for client c (its frame counter advances).
DetectionRan(c) ==
    /\ c \in Connected /\ c \in Connected'
    /\ ev'.op = "capture" /\ ev'.c = c
    /\ clientStates'[c].frameCount = clientStates[c].frameCount + 1

\* C14: on a detection step outside calibration and outside the fixed-mode
\* lock the Pane Locator is invoked exactly when the frame counter (this
\* frame counted) is a multiple of 10 or the stable position of the current
\* view mode is unset; on every other such step no Pane Locator call is made
\* and the detection state other than frameCount is unchanged.
C14_Cadence ==
    [][\A c \in Clients :
          LET st == clientStates[c]
              st2 == clientStates'[c]
          IN  (/\ DetectionRan(c)
               /\ ~st.calibrationMode
               /\ ~(detectionMode = "fixed" /\ Locked(st)))
              => /\ ev'.located <=> (st2.frameCount % 10 = 0 \/ StablePos(st) = Unset)
                 /\ ~ev'.located => st2 = [st EXCEPT !.frameCount = st2.frameCount]]_vars

\* C14 witness: a committed client in dynamic mode, out of calibration, has
\* had the Pane Locator invoked on its tenth frame and not on its ninth.
C14_Witness ==
    /\ "c1" \in Connected
    /\ detectionMode = "dynamic"
    /\ ~clientStates["c1"].calibrationMode
    /\ clientStates["c1"].stablePaneX = 620
    /\ clientStates["c1"].viewMode = "chat"
    /\ clientStates["c1"].frameCount = 10
    /\ ev.op = "capture" /\ ev.c = "c1" /\ ev.located

\* C15: a detection step in which the Pane Locator returns no pane leaves
\* stablePaneX/Y/W/H, lastPaneX/Y, stabilityCount and both fixed zones
\* unchanged, and the stable crop of the tick is the one of the previously
\* committed region.
C15_NoPaneKeepsState ==
    [][\A c \in Clients :
          (/\ c \in Connected /\ c \in Connected'
           /\ ev'.op = "capture" /\ ev'.c = c /\ ev'.located /\ ev'.pane = None) =>
             LET st == clientStates[c]
                 st2 == clientStates'[c]
             IN  /\ st2.stablePaneX = st.stablePaneX /\ st2.stablePaneY = st.stablePaneY
                 /\ st2.stablePaneW = st.stablePaneW /\ st2.stablePaneH = st.stablePaneH
                 /\ st2.lastPaneX = st.lastPaneX /\ st2.lastPaneY = st.lastPaneY
                 /\ st2.stabilityCount = st.stabilityCount
                 /\ st2.fixedChatZone = st.fixedChatZone
                 /\ st2.fixedTerminalZone = st.fixedTerminalZone
                 /\ \A w \in WindowBounds :
                       StableCrop(st2, w.width, w.height) = StableCrop(st, w.width, w.height)]_vars

\* C15 witness: a chat client committed at 620 has had a detection step
\* without a pane and is still cropped at 620.
C15_Witness ==
    /\ "c1" \in Connected
    /\ clientStates["c1"].viewMode = "chat"
    /\ ev.op = "capture" /\ ev.c = "c1" /\ ev.located /\ ev.pane = None
    /\ clientStates["c1"].stablePaneX = 620
    /\ clientStates["c1"].stabilityCount = 3
    /\ StableCrop(clientStates["c1"], 1000, 800).x = 620

\* C16: the step that ends a tick, by an error or normally, releases the
\* in-flight guard and leaves the capture timer and the streaming flag as they
\* are; the guard is never set without an execution in flight, so the next
\* timer fire starts a capture.
C16_ErrorReleasesGuard ==
    [][/\ (ev'.op = "capture" /\ ev'.ended # None) =>
             /\ ~isCapturing'
             /\ streamInterval' = streamInterval
             /\ isStreaming' = isStreaming
       /\ isCapturing' => Len(running') >= 1]_vars

\* C16 witness: a tick has ended by the failure of a client's processing
\* with the guard released and the timer live.
C16_Witness ==
    /\ ev.op = "capture" /\ ev.ended # None
    /\ Get(ev.ended).failedAt > 0
    /\ ~isCapturing
    /\ streamInterval = "live"

\* The step is a handler that runs StreamEngine.updateInterval.
UpdateIntervalStep ==
    \/ \E c \in Clients, mode \in ViewModes : SetMode(c, mode)
    \/ \E c \in Clients : Disconnect(c) /\ Connected # {c}
    \/ \E c \in Clients : Connect(c) /\ ~isStreaming
    \/ SaveDone

\* The clients that are active and in a streaming view mode.
Streaming(states) ==
    { c \in DOMAIN states :
        states[c].isActive /\ states[c].viewMode \in {"chat", "terminal", "apps"} }

C18_OneSnapshotPerTick ==
    [][/\ (TimerFire(MaxFrames) /\ Len(running) = 0) =>
             IF Streaming(clientStates) = {}
             THEN running' = running /\ ev'.frames = {} /\ ~isCapturing'
             ELSE /\ Len(running') = 1
                  /\ running'[1].i = 0
                  /\ { running'[1].list[j] : j \in 1..Len(running'[1].list) }
                        = Streaming(clientStates)
                  /\ ev'.frames = {}
       /\ \A k \in 1..Len(running) :
             (running[k].i > 0 /\ Len(running') = Len(running)) => running'[k].i > 0]_vars

\* C18 witness: the timer has fired with clients connected but none active
\* in a streaming mode, and nothing was started.
C18_Witness ==
    /\ ev.op = "idle"
    /\ Connected # {}
    /\ Streaming(clientStates) = {}
    /\ Len(running) = 0 /\ ~isCapturing

\* C19: a step emits at most one frame, to a client that the emitting
\* execution has not served before, and that execution is the only one in
\* flight; an execution starts only when none is in flight, so every frame
\* of a tick is emitted before the next tick starts.
C19_OneFramePerClientPerTick ==
    [][/\ Cardinality(ev'.frames) <= 1
       /\ \A c \in ev'.frames :
             /\ Len(running) = 1
             /\ running[1].i > 0
             /\ running[1].list[running[1].i] = c
             /\ c \notin running[1].served
             /\ \A j \in 1..Len(running[1].list) :
                   running[1].list[j] = c => j = running[1].i
       /\ Len(running') > Len(running) => Len(running) = 0]_vars

\* C19 witness: a tick over two clients has ended after it emitted one
\* frame to each of them, the last one in the step just taken.
C19_Witness ==
    /\ ev.frames = {"c2"}
    /\ ev.ended = Some([list |-> << "c1", "c2" >>, served |-> {"c1", "c2"},
                        failedAt |-> 0])
    /\ Len(running) = 0

\* C20: a client whose disconnect has been handled has neither a state entry
\* nor a config override entry; an execution of captureAndEmit that starts
\* has no such client in its list, the list of an execution never changes,
\* a step of an execution processes only a client that is still connected
\* and emits frames only to clients of its list, and an iteration of the
\* detection cycle works on a connected client.
C20_DisconnectedClientForgotten ==
    /\ [](\A c \in gone : c \notin DOMAIN clientStates /\ c \notin DOMAIN clientConfigs)
    /\ [][/\ Len(running') > Len(running) =>
                \A j \in 1..Len(running'[Len(running')].list) :
                    running'[Len(running')].list[j] \notin gone'
          /\ (Len(running') = Len(running) /\ Len(running) = 1) =>
                running'[1].list = running[1].list
          /\ ev'.c # "-" => (ev'.c \notin gone /\ ev'.c \in DOMAIN clientStates)
          /\ \A c \in ev'.frames :
                /\ Len(running) = 1
                /\ \E j \in 1..Len(running[1].list) : running[1].list[j] = c
          /\ \A c \in Clients, found \in Found :
                WindowDetection(c, found) => c \notin gone]_vars

\* C20 witness: after the disconnect of c1, a detection iteration has found
\* the window of c2 and a tick over c2 alone has emitted its frame and ended.
C20_Witness ==
    /\ "c1" \in gone
    /\ "c2" \in Connected
    /\ clientStates["c2"].detectedWindow # None
    /\ DOMAIN clientConfigs = {"c2"}
    /\ ev.frames = {"c2"}
    /\ ev.ended = Some([list |-> << "c2" >>, served |-> {"c2"}, failedAt |-> 0])

\* C21: when an input:click at (cx, cy) of client c is carried out under the
\* DPI scale (sx, sy), and the crop margins are still those of the frame last
\* sent to c, the pointer is moved to the logical position nearest to
\* ((X + cx) / sx, (Y + cy) / sy), where (X, Y) is the absolute origin of the
\* image that frame showed (the post-crop capture area).
C21_ClickRoundTrip ==
    [][\A k \in 1..Len(clicking), scale \in Scales :
         LET c == clicking[k].c
         IN  (/\ ClickResume(k, TRUE, scale)
              /\ shown[c] # None
              /\ Get(shown[c]).crop = EffectiveCrop(clientStates[c].viewMode, cropConfig))
             => pointer' = Some([x |-> Round((Get(shown[c]).origin.x + clicking[k].x)
                                              * scale[2], scale[1]),
                                 y |-> Round((Get(shown[c]).origin.y + clicking[k].y)
                                              * scale[2], scale[1])])]_vars

\* An input:click or input:scroll of client c whose payload is absent or
\* lacks its numeric fields.
MalformedInput(c) ==
    \/ \E pos \in ClickPayloads : ~WellFormedClick(pos) /\ InputClick(c, pos)
    \/ \E data \in ScrollPayloads, sens \in Sensitivities :
          ~WellFormedScroll(data) /\ InputScroll(c, data, sens)

\* A term:input, term:resize, term:kill, apps:activate or apps:setSource of
\* client c without payload object.
MissingPayload(c) ==
    \/ TermInput(c, FALSE)
    \/ TermResize(c, FALSE)
    \/ TermKill(c, FALSE)
    \/ AppsActivate(c, FALSE)
    \/ AppsSetSource(c, FALSE)

\* The step injects no OS input, raises no exception, and changes nothing of
\* the session and detection state of c but its activity fields.
DroppedSilently(c) ==
    /\ uncaught' = uncaught
    /\ pointer' = pointer /\ mouseClicks' = mouseClicks
    /\ scrollRequested' = scrollRequested /\ scrollPipe' = scrollPipe
    /\ delegated' = delegated
    /\ clicking' = clicking
    /\ scrollAccumulatorY' = scrollAccumulatorY
    /\ lastCaptureArea' = lastCaptureArea
    /\ DOMAIN clientStates' = DOMAIN clientStates
    /\ \A d \in Connected \ {c} : clientStates'[d] = clientStates[d]
    /\ [clientStates'[c] EXCEPT !.lastActivity = 0, !.isActive = TRUE]
         = [clientStates[c] EXCEPT !.lastActivity = 0, !.isActive = TRUE]
    /\ UNCHANGED << streamInterval, intervalMs, isStreaming, detectionMode >>

\* C22: every inbound event with a missing or misshapen payload is dropped
\* silently.
C22_MalformedDropped ==
    [][\A c \in Clients : (MalformedInput(c) \/ MissingPayload(c)) => DroppedSilently(c)]_vars

\* C23: every call of the WindowDetectorWorker is resolved at most once,
\* with the parsed response or with null from its timeout, whatever the
\* order of the response, the timeout and the exit of the helper.
C23_ResolvedAtMostOnce ==
    \A id \in DOMAIN resolved : Len(resolved[id]) <= 1

\* A call was answered with bounds, its timeout has fired since, and the
\* helper has exited.
C23_Witness ==
    \E id \in DOMAIN resolved :
        /\ resolved[id][1] # None
        /\ id \notin DOMAIN timeouts
        /\ exits > 0

\* The calls issued so far.
Issued == 1..callId

\* C24: a call that is still pending when its 3 s timeout fires resolves
\* with null and leaves the pending-call map; the map holds exactly the calls
\* that are not resolved, so it is empty once every call has been answered or
\* has timed out.
C24_TimeoutResolvesNull ==
    /\ [](/\ DOMAIN pendingCallbacks = Issued \ DOMAIN resolved
          /\ DOMAIN pendingCallbacks \subseteq DOMAIN timeouts)
    /\ [][\A id \in Issued :
            (Timeout(id) /\ id \in DOMAIN pendingCallbacks)
                => /\ now >= CALL_TIMEOUT
                   /\ id \notin DOMAIN pendingCallbacks'
                   /\ id \notin DOMAIN resolved
                   /\ resolved'[id] = << None >>]_vars

\* Every call issued went unanswered and has timed out: each resolved with
\* null and the map is empty.
C24_Witness ==
    /\ callId = MaxCalls
    /\ cache = << >>
    /\ timeouts = << >>
    /\ pendingCallbacks = << >>
    /\ \A id \in Issued : resolved[id] = << None >>

\* C25: a call in flight when the helper exits fails: it never resolves with
\* a result.
C25_InFlightFailAtExit ==
    \A id \in inFlightAtExit :
        id \in DOMAIN resolved => resolved[id] = << None >>

\* The cached entries that hold an answer to the lookup l and are younger
\* than the TTL.
FreshAnswers(l) ==
    { k \in DOMAIN cache : cachedBy[k] = l /\ now - cache[k].time < 2000 }

\* C26: a lookup with a cached answer younger than 2000 ms returns it
\* without writing a command and without allocating an id; a lookup returns
\* a cached value only if it is an answer to the same kind of lookup with the
\* same argument and is younger than 2000 ms.
C26_CacheWithinTTL ==
    [][\A l \in Lookups :
         Lookup(l.kind, l.arg) =>
            /\ FreshAnswers(l) # {} =>
                  /\ lookup'.hit
                  /\ \E k \in FreshAnswers(l) : lookup'.value = cache[k].value
                  /\ callId' = callId
                  /\ helperIn' = helperIn
                  /\ helperPartial' = helperPartial
                  /\ pendingCallbacks' = pendingCallbacks
            /\ lookup'.hit => FreshAnswers(l) # {}]_vars

\* A handle lookup was answered from the cache while the title lookup with
\* the same argument has an entry of its own with another value.
C26_Witness ==
    /\ lookup.hit
    /\ lookup.key = "handle:5"
    /\ "title:5" \in DOMAIN cache
    /\ cache["title:5"].value # lookup.value
    /\ now - cache["title:5"].time >= 2000

\* C27: every amount scroll() was called with is executed by the helper
\* exactly once, in order: it has been executed or is waiting in the
\* helper's input, also when the call is made while the helper has exited.
C27_ScrollExactlyOnce ==
    scrollRequested = scrollExecuted \o scrollPipe

\* C28: for the three-finger scroll events of a client, the accumulator is
\* below one tick in absolute value after every event, the whole ticks taken
\* so far plus the accumulator equal the sum of deltaY x sensitivity over the
\* accepted events (in hundredths of a tick), and an event of one client
\* leaves the accumulators of the others as they are.
C28_AccumulatorConserves ==
    /\ [](\A c \in Clients :
            /\ Abs(scrollAccumulatorY[c]) < 100
            /\ scrollSum[c].input = 100 * scrollSum[c].ticks + scrollAccumulatorY[c])
    /\ [][\A c \in Clients, data \in AccumPayloads, sens \in Sensitivities :
            InputScroll(c, data, sens)
                => \A d \in Clients \ {c} :
                       scrollAccumulatorY'[d] = scrollAccumulatorY[d]]_vars

\* A client has had a whole tick taken and keeps a fraction, while the
\* accumulator of another client holds a different fraction.
C28_Witness ==
    \E c, d \in Clients :
        /\ scrollSum[c].ticks # 0
        /\ scrollAccumulatorY[c] # 0
        /\ scrollAccumulatorY[d] # 0
        /\ scrollAccumulatorY[d] # scrollAccumulatorY[c]

\* The snapshot of the scenario: 1200 x 900 with horizontal edges at the
\* rows 700, 850 and 820, and findTerminalPane has run on it.
ScenarioRan ==
    /\ snapshot = Some([width |-> 1200, height |-> 900, edges |-> {700, 850, 820}])
    /\ terminalPane.ran

\* C29 as stated: in the scenario the bottom separator is row 820, so the
\* pane has y = 700 and height = 120.
C29_BottomIs820 ==
    ScenarioRan =>
        /\ terminalPane.found # None
        /\ Get(terminalPane.found).y = 700
        /\ Get(terminalPane.found).height = 120

\* C29: in the scenario the edge at row 850 is 50 rows above the bottom of
\* the image, not within 25, so it stays the bottom separator: the pane has
\* y = 700 and height = 150.
C29_BottomIs850 ==
    ScenarioRan =>
        /\ terminalPane.found # None
        /\ Get(terminalPane.found).y = 700
        /\ Get(terminalPane.found).height = 150

\* findTerminalPane has run on the snapshot of the scenario and found a pane.
C29_Witness ==
    ScenarioRan /\ terminalPane.found # None

\* An edge within sampleStep of the boundary with a score of 0.9 or more
\* is among those found.
BoundaryFound ==
    \E i \in 1..Len(verticalEdges.found) :
        /\ Abs(verticalEdges.found[i].x - Get(buffer).boundary) <= DefaultOptions.sampleStep
        /\ 10 * verticalEdges.found[i].count >= 9 * verticalEdges.found[i].total

\* C30 as stated: for a buffer that is uniform but for one vertical
\* boundary at column P, wherever P lies between the left and right edges,
\* an edge within sampleStep of P with a score of 0.9 or more is returned.
C30_EdgeAtEveryColumn ==
    verticalEdges.ran => BoundaryFound

\* The boundary has one of its columns P-3 .. P+2 among those scanned.
BoundaryScanned ==
    LET P == Get(buffer).boundary
        width == Get(buffer).width
    IN  /\ P <= width - 27
        /\ IF verticalEdges.fullWidth THEN P >= 29 ELSE 10 * (P + 2) > 3 * width

\* C30: for a buffer higher than 60 rows that is uniform but for one
\* vertical boundary at column P with 0.3 x width - 2 < P <= width - 27
\* (29 <= P <= width - 27 with fullWidth), an edge within sampleStep of P
\* with a score of 0.9 or more is returned.
C30_EdgeInScannedRange ==
    (verticalEdges.ran /\ Get(buffer).height > 60 /\ BoundaryScanned)
        => BoundaryFound

\* The detector ran with its default options on a buffer 100 rows high
\* whose boundary is the leftmost one the scan reaches, and found it.
C30_Witness ==
    /\ verticalEdges.ran
    /\ ~verticalEdges.fullWidth
    /\ Get(buffer).height = 100
    /\ 10 * (Get(buffer).boundary + 2) > 3 * Get(buffer).width
    /\ 10 * (Get(buffer).boundary + 1) <= 3 * Get(buffer).width
    /\ BoundaryFound

\* The ids that have been given to a call: those pending, resolved, with a
\* timer armed, written to the helper or printed by it.
IdsInUse ==
    (DOMAIN pendingCallbacks \cup DOMAIN resolved \cup DOMAIN timeouts
        \cup UNION { { helperIn[i][j] : j \in 1..Len(helperIn[i]) } :
                       i \in 1..Len(helperIn) }
        \cup { helperPartial[i] : i \in 1..Len(helperPartial) }
        \cup { helperOut[i].id : i \in 1..Len(helperOut) }) \ {0}

\* C31: the ids of the calls are strictly increasing over the life of the
\* worker, also across restarts of the helper: callId never decreases, and
\* a call is issued under an id larger than every id in use, so that no line
\* of an earlier call can resolve it.
C31_IdsStrictlyIncrease ==
    /\ [](\A id \in IdsInUse : id <= callId)
    /\ [][/\ callId' >= callId
          /\ \A id \in DOMAIN pendingCallbacks' \ DOMAIN pendingCallbacks :
                /\ id = callId'
                /\ \A old \in IdsInUse : old < id]_vars

\* A call is pending that was issued after an exit of the helper during
\* which an earlier call was in flight.
C31_Witness ==
    /\ exits > 0
    /\ 1 \in inFlightAtExit
    /\ callId > 1
    /\ callId \notin inFlightAtExit
    /\ callId \in DOMAIN pendingCallbacks

\* C32: at most one run of the detection callback is in flight: a fire of
\* the detection timer while a run awaits a lookup starts no second run.
C32_OneDetectionCycle ==
    Len(cycles) <= 1

\* C33: the command of every lookup, by title as by handle, is written as
\* one line ended by a newline, so that a helper that answers every complete
\* line answers it: the helper's input holds no command without its newline
\* and no line with more than one command.
C33_EveryCommandIsALine ==
    /\ helperPartial = << >>
    /\ \A i \in 1..Len(helperIn) : Len(helperIn[i]) = 1

\* C34: a call that times out writes nothing to the cache, and a line
\* whose id matches no pending call, its call having timed out for one,
\* changes neither the cache nor the pending-call map nor a resolved value.
C34_LateLineChangesNothing ==
    [][/\ \A id \in Issued : Timeout(id) => cache' = cache
       /\ (/\ ProcessOutput
           /\ Head(helperOut) # ReadyLine
           /\ Head(helperOut).id \notin DOMAIN pendingCallbacks)
              => /\ cache' = cache
                 /\ pendingCallbacks' = pendingCallbacks
                 /\ resolved' = resolved]_vars

\* The one call issued timed out, the helper, which never exited, printed
\* its line afterwards and the line has been read: the call stays resolved
\* with null and nothing is cached.
C34_Witness ==
    /\ exits = 0
    /\ callId = 1
    /\ 1 \in DOMAIN resolved
    /\ resolved[1] = << None >>
    /\ cache = << >>
    /\ pendingCallbacks = << >>
    /\ helperIn = << >> /\ helperPartial = << >> /\ helperOut = << >>

\* C35: when a tick applies the stable crop of a client with a detected
\* window (chat: stablePaneX > 0; terminal: stablePaneY > 0), the rectangle
\* has positive width and height and lies inside the base region, that of
\* the window as it is now.
C35_StableCropInsideBase ==
    \A c \in Connected :
        LET st == clientStates[c]
            base == Get(st.detectedWindow)
            crop == StableCrop(st, base.width, base.height)
        IN  (/\ ev.op = "capture" /\ ev.c = c
             /\ st.detectedWindow # None
             /\ \/ st.viewMode = "chat" /\ st.stablePaneX > 0
                \/ st.viewMode = "terminal" /\ st.stablePaneY > 0)
            => /\ crop.w > 0 /\ crop.h > 0
               /\ crop.x >= 0 /\ crop.y >= 0
               /\ crop.x + crop.w <= base.width
               /\ crop.y + crop.h <= base.height


\* The stable values client state st has in use for its view mode equal the
\* fixed zone it stores for that mode.
InUseIsZone(st) ==
    LET z == Get(ZoneOf(st, st.viewMode))
    IN  IF st.viewMode = "terminal"
        THEN /\ st.stablePaneX = z.stablePaneX /\ st.stablePaneY = z.stablePaneY
             /\ st.stablePaneW = z.stablePaneW /\ st.stablePaneH = z.stablePaneH
        ELSE st.stablePaneX = z.stablePaneX

\* C36: while the effective detection mode stays fixed, a client in chat or
\* terminal mode that is not calibrating and stores a fixed zone for that mode
\* has stable values in use equal to that stored zone.
C36_StableIsStoredZone ==
    \A c \in Connected :
        LET st == clientStates[c]
        IN  ( /\ detectionMode = "fixed"
              /\ st.viewMode \in PaneModes
              /\ ~st.calibrationMode
              /\ ZoneOf(st, st.viewMode) # None )
            => InUseIsZone(st)

\* A client in fixed mode that stores a terminal zone has come back to its
\* terminal view from another view and is not calibrating.
C36_Witness ==
    /\ detectionMode = "fixed"
    /\ "c1" \in Connected
    /\ ev.op = "restore"
    /\ LET st == clientStates["c1"]
       IN  /\ st.viewMode = "terminal" /\ ~st.calibrationMode
           /\ st.fixedTerminalZone # None
           /\ st.stablePaneY = Get(st.fixedTerminalZone).stablePaneY

\* C37: a frame is emitted to a connected client only while that client is
\* active and in a streaming mode (chat, terminal, apps) in the state of the
\* emission, whatever view:setMode or inactivity events were handled while
\* the tick was suspended.
C37_FrameOnlyWhileStreaming ==
    \A c \in ev.frames \cap Connected : Eligible(clientStates[c])

\* A client that is not active is in idle view mode.
InactiveIsIdle ==
    \A c \in Connected :
        ~clientStates[c].isActive => clientStates[c].viewMode = "idle"

\* A step that makes an inactive client active again leaves its view mode
\* idle unless it is a view:setMode of that client.
WakeUpKeepsIdle ==
    \A c \in Connected \cap Connected' :
        (~clientStates[c].isActive /\ clientStates'[c].isActive) =>
            \/ clientStates'[c].viewMode = "idle"
            \/ \E mode \in ViewModes : SetMode(c, mode)

\* No frame is emitted to a client whose view mode is idle.
NoFrameWhileIdle ==
    \A c \in ev.frames \cap Connected : clientStates[c].viewMode # "idle"

\* C38: a client with isActive = false has viewMode idle; an event other than
\* view:setMode that wakes it up leaves viewMode idle; and a client whose
\* view mode is idle receives no frame.
C38_InactiveStaysIdle ==
    /\ []InactiveIsIdle
    /\ [][WakeUpKeepsIdle]_vars
    /\ []NoFrameWhileIdle

\* C39: no live timer of the engine has lost its reference, so at most the
\* one capture timer and the one detection-refresh timer the engine
\* references are live, and neither is live while the engine is stopped.
C39_OneTimerOfEachKind ==
    /\ streamInterval # "leaked" /\ detectionInterval # "leaked"
    /\ ~isStreaming => (streamInterval # "live" /\ detectionInterval # "live")

\* The engine runs again with both timers live after it had been stopped
\* by the disconnection of its only client.
C39_Witness ==
    /\ gone # {} /\ Connected # {}
    /\ isStreaming /\ streamInterval = "live" /\ detectionInterval = "live"
    /\ \E c \in gone : clientOrder = << CHOOSE x \in Clients : x # c >>

\* C40: every non-null result of findTerminalPane is a non-empty rectangle
\* inside the image it was given: positive width and height, x >= 0,
\* x + width and y + height within the image.
C40_PaneInsideImage ==
    (terminalPane.ran /\ terminalPane.found # None) =>
        LET pane == Get(terminalPane.found)
        IN  /\ pane.width > 0 /\ pane.height > 0
            /\ pane.x >= 0
            /\ pane.x + pane.width <= Get(snapshot).width
            /\ pane.y + pane.height <= Get(snapshot).height

====
